---- MODULE Spec2Model ----
(***************************************************************************)
(* Generation-pipeline execution engine of redink-xiaohongshu:             *)
(*   backend/core/base_skill.py      BaseSkill.execute                     *)
(*   backend/core/base_pipeline.py   BasePipeline.run_stream / cancel      *)
(*   backend/pipelines/redbook_pipeline.py  RedBookPipeline.run_stream     *)
(*   backend/pipelines/concept_pipeline.py  ConceptPipeline.run            *)
(*   backend/core/events.py          EventEmitter, SSEChannel, EventBus    *)
(*   backend/skills/generate.py      GenerateImageSkill                    *)
(*                                                                         *)
(* The specifications share the variables of the module:                   *)
(*   SpecPipe    runs of a pipeline generator, resumed by their consumer   *)
(*   SpecChan    one SSEChannel used by one producer and one consumer      *)
(*   SpecBus     get_event_bus() and the EventBus operations, by threads   *)
(*   SpecBusSeq  the same operations with calls that do not overlap        *)
(*   SpecEmit    one EventEmitter: on, on_all, off, clear, emit            *)
(*   SpecImg     one run of GenerateImageSkill.run_stream, yield by yield  *)
(*   SpecRetry   GenerateImageSkill.run and retry_single_image as calls    *)
(*   SpecCleanup the calls of SpecRetry and cleanup_task                   *)
(*   SpecConcept ConceptPipeline.run consuming its own run_stream          *)
(*   SpecInput   run, OutlineSkill.run and ContentSkill.run on any input    *)
(*   SpecMap     create_channel / close_channel of threads, by statement    *)
(*   SpecMid     SpecImg with retry_single_image called between the yields  *)
(*   SpecPub     SSEChannel.publish of threads, by statement                *)
(*   SpecFlow    one producer, one consumer and close on an SSEChannel      *)
(*   SpecService run_pipeline_stream generators and cancel_pipeline        *)
(***************************************************************************)
EXTENDS Integers, Sequences, FiniteSets, TLC

\* ---------------------------------------------------------------- bounds
MaxSkills == 3
MaxImgEvents == 3
MaxCancels == 2
MaxRuns == 2

\* ----------------------------------------------------------------- state
\* The tuples of variables, the ...Parked predicates (a component that takes
\* no part in a specification rests in its initial state) and the Spec...
\* formulas are bookkeeping; every other definition follows the source.
\* The pipeline object and its run_stream generator.
VARIABLES
    kind,          \* "base" (BasePipeline.run_stream) or "redbook"
    total_skills,  \* len(self.skills)
    skip_content,  \* config['pipeline']['skip_content']
    skip_images,   \* config['pipeline']['skip_images']
    pc,            \* position of the generator: the yield it is suspended at
    status,        \* self._status
    current_step,  \* self._context.current_step
    events,        \* the events run_stream has yielded so far
    calls,         \* history of skill calls: step, hook outcomes, result
    skill_status,  \* skill._status per step
    img_pulled,    \* events pulled from image_skill.run_stream
    img_finished,  \* the image stream has produced its finish event
    img_success,   \* success flag of the image finish payload, "none" before
    stage,         \* RedBookPipeline: the step block the generator is in
    cancels,       \* cancel() calls made
    cancel_ret,    \* return value of the last cancel()
    faulted,       \* step at which a fault left the loop body, 0 = none
    context,       \* self._context: run id, variables and results
    run_ids,       \* the run ids of the runs started on this instance
    h_raising,     \* the handlers of self._event_handlers that raise when called
    received       \* per handler: the events it was called with during this run

pipeVars == <<kind, total_skills, skip_content, skip_images, pc, status,
              current_step, events, calls, skill_status, img_pulled,
              img_finished, img_success, stage, cancels, cancel_ret, faulted,
              context, run_ids, h_raising, received>>
ctxVars == <<context, run_ids>>

\* One SSEChannel with its producer and its consumer.
VARIABLES
    chan,        \* the SSEChannel object
    ch_next,     \* publish calls made so far; the next event is ch_next + 1
    ch_since,    \* events passed to publish on the open channel since the last drain
    ch_last      \* the last operation: its kind, argument, result, channel before

chanVars == <<chan, ch_next, ch_since, ch_last>>

\* The EventBus singleton, its emitter and channel registry, and the threads.
VARIABLES
    cls_instance,     \* EventBus._instance: 0 = None, else the bus object
    initialized,      \* _initialized of that object: "unset", "false", "true"
    lock,             \* EventBus._lock: 0 = free, else the holding thread
    emitter,          \* bus._emitter: 0 = unset, else the emitter object
    emitter_installs, \* EventEmitter objects installed so far
    registry,         \* bus._channels: 0 = unset, else the dict object
    registry_installs,\* channel dicts installed so far
    handlers,         \* _handlers of the current emitter, per event type
    wildcard,         \* _wildcard_handlers of the current emitter
    channels,         \* the current bus._channels: id -> <<channel>>, <<>> = absent
    tpc,              \* per thread: position inside EventBus() or "idle"
    ret,              \* per thread: bus returned by its last get_event_bus(), 0 = none
    ret_emitter,      \* per thread: bus.emitter as read right after that return
    calls_done,       \* completed get_event_bus() calls (capped)
    first_ret,        \* bus returned by the first completed call
    first_emitter,    \* its emitter
    reg_handlers,     \* handlers registered through the bus
    reg_channels,     \* ids created through the bus and not closed through it
    next_handler,     \* handlers registered so far
    bus_events,       \* events published through the bus so far
    attr_fault,       \* a call raised AttributeError on _initialized
    last_pub,         \* the last EventBus.publish: arguments and effect
    concurrent        \* calls of different threads may overlap

busVars == <<cls_instance, initialized, lock, emitter, emitter_installs, registry,
             registry_installs, handlers, wildcard, channels, tpc, ret,
             ret_emitter, calls_done, first_ret, first_emitter, reg_handlers,
             reg_channels, next_handler, bus_events, attr_fault, last_pub>>

busObjVars == <<cls_instance, initialized, lock, emitter, emitter_installs, registry,
                registry_installs>>

busHistVars == <<calls_done, first_ret, first_emitter>>

busUseVars == <<handlers, wildcard, channels, reg_handlers, reg_channels,
                next_handler, bus_events, last_pub>>

\* One EventEmitter on its own, with handlers that may raise.
VARIABLES
    em_handlers,   \* emitter._handlers: per event type, the handlers in registration order
    em_wildcard,   \* emitter._wildcard_handlers
    em_raising,    \* the handlers whose call raises an Exception
    em_last        \* the latest call if an emit: event type, handlers called, how it ended

emVars == <<em_handlers, em_wildcard, em_raising, em_last>>

\* One GenerateImageSkill: its task states, one run_stream generator with the
\* worker pool of the concurrent mode, and the calls of run and
\* retry_single_image.
VARIABLES
    high_concurrency, \* provider_config['high_concurrency']
    request_delay,    \* self.REQUEST_DELAY
    max_concurrent,   \* self.MAX_CONCURRENT
    task_states,      \* self._task_states: task id -> <<state>>, <<>> = absent
    current_task_id,  \* self.current_task_id
    g_pc,             \* the yield the generator is suspended at
    g_task,           \* task_id of the run
    g_pages,          \* pages
    g_cover,          \* cover_page: its index, 0 = None
    g_other,          \* other_pages: their indices, in order
    g_i,              \* position of the sequential loop in other_pages
    generated_images, \* indices whose file name was appended to generated_images
    failed_pages,     \* indices of the pages appended to failed_pages
    cover_image_data, \* the compressed cover, NoImage = None
    futures,          \* per index: state of its future in the executor
    g_events,         \* the notifications the generator has yielded
    g_log,            \* generator calls: start/end, page, reference, task directory
    last_run,         \* the last run(): its arguments, calls and result
    g_retries,        \* retry_single_image calls made so far
    g_extra,          \* next() calls on the generator after it was exhausted
    last_retry,       \* the last retry_single_image: arguments, result, states before
    last_cleanup      \* the argument of the last cleanup_task, "NONE" before

imgVars == <<high_concurrency, request_delay, max_concurrent, task_states,
             current_task_id, g_pc, g_task, g_pages, g_cover, g_other, g_i,
             generated_images, failed_pages, cover_image_data, futures,
             g_events, g_log, last_run, g_retries, g_extra, last_retry,
             last_cleanup>>

\* One ConceptPipeline and the run() call that consumes its run_stream.
VARIABLES
    skip_generate,  \* config['pipeline']['skip_generate']
    c_pc,           \* position of the generator inside run_stream
    c_step,         \* step_index + 1 of the loop over self.skills
    c_events,       \* the events run_stream has yielded so far
    c_status,       \* self._status
    c_pulled,       \* events taken from ConceptGenerateSkill.run_stream
    final_result,   \* run(): the local final_result
    c_ret           \* what run() gave its caller

conVars == <<skip_generate, c_pc, c_step, c_events, c_status, c_pulled,
             final_result, c_ret>>

\* The latest call of OutlineSkill.run / ContentSkill.run.
VARIABLES
    txt_last        \* its input, the generate_text calls it made, its result

txtVars == <<txt_last>>

\* The channel map of a constructed EventBus, used by threads whose
\* create_channel and close_channel calls run statement by statement.
VARIABLES
    m_channels,     \* bus._channels: id -> channel object (0 = no entry)
    m_objs,         \* the SSEChannel objects constructed so far, by object number
    m_thr,          \* per thread: position in its call, argument, channel held, fault
    m_calls,        \* create_channel / close_channel calls started (capped)
    m_events,       \* events published so far (capped)
    m_orphaned,     \* events published to a channel while the map did not hold it
    m_seen          \* events returned by get_channel(id).get_events()

mapVars == <<m_channels, m_objs, m_thr, m_calls, m_events, m_orphaned, m_seen>>

\* One open SSEChannel with threads whose publish calls run statement by
\* statement.
VARIABLES
    p_chan,         \* the SSEChannel object
    p_thr,          \* per thread: position in publish, its event, whether it saw full()
    p_next,         \* publish calls started so far
    p_done,         \* per returned publish: event, channel open at its start, result,
                    \* event in the queue at return
    p_delivered     \* everything the consumer's get_events calls returned, in order

pubVars == <<p_chan, p_thr, p_next, p_done, p_delivered>>

\* A PipelineService whose run_pipeline_stream generators are resumed by
\* their consumers one event at a time.
VARIABLES
    active_pipelines,   \* service._active_pipelines: the run ids registered
    s_runs,             \* per run_pipeline_stream call: pipeline type, outcome,
                        \* events relayed, local run_id, pipeline status, position
    s_cancel            \* the latest cancel_pipeline call and what it returned

svcVars == <<active_pipelines, s_runs, s_cancel>>

\* The components added to the pipeline, channel, bus and scheduler above.
extVars == <<txtVars, mapVars, pubVars, svcVars>>

baseVars == <<pipeVars, chanVars, busVars, concurrent, conVars, emVars, imgVars>>

vars == <<pipeVars, chanVars, busVars, concurrent, conVars, emVars, imgVars, extVars>>

\* ------------------------------------------------------------ BaseSkill
\* Outcomes of the three overridable hooks of a skill.
PreOutcomes == {"ok", "raise"}
RunOutcomes == {"ok", "failed", "raise", "nonresult"}
PostOutcomes == {"ok", "raise"}

\* SkillResult(success, error); data and metadata are opaque payloads.
SkillResult(success, error) ==
    [propagated |-> FALSE, success |-> success, error |-> error,
     status |-> IF success THEN "success" ELSE "failed"]

\* execute with its except clause removed: the fault reaches the caller.
executeNoGuard(pre, run, post) ==
    IF pre = "raise" THEN
        [propagated |-> TRUE, success |-> FALSE, error |-> "pre_fault", status |-> "running"]
    ELSE IF run = "raise" THEN
        [propagated |-> TRUE, success |-> FALSE, error |-> "run_fault", status |-> "running"]
    ELSE IF post = "raise" THEN
        [propagated |-> TRUE, success |-> FALSE, error |-> "post_fault", status |-> "running"]
    ELSE IF run = "nonresult" THEN
        [propagated |-> TRUE, success |-> FALSE, error |-> "attr_fault", status |-> "running"]
    ELSE SkillResult(run = "ok", IF run = "ok" THEN "none" ELSE "run_error")

\* execute whose except clause leaves the status as it is.
executeKeepsRunning(pre, run, post) ==
    IF pre = "raise" \/ run \in {"raise", "nonresult"} \/ post = "raise"
    THEN [propagated |-> FALSE, success |-> FALSE,
          error |-> IF pre = "raise" THEN "pre_fault"
                    ELSE IF run = "raise" THEN "run_fault"
                    ELSE IF post = "raise" THEN "post_fault" ELSE "attr_fault",
          status |-> "running"]
    ELSE [propagated |-> FALSE, success |-> run = "ok",
          error |-> IF run = "ok" THEN "none" ELSE "run_error",
          status |-> IF run = "ok" THEN "success" ELSE "failed"]

\* BaseSkill.execute: pre_run, run, post_run inside try/except Exception.
\* A value of run that is no SkillResult has no .success attribute, so the
\* status assignment raises AttributeError inside the same try block.
execute(pre, run, post) ==
    IF pre = "raise" THEN SkillResult(FALSE, "pre_fault")
    ELSE IF run = "raise" THEN SkillResult(FALSE, "run_fault")
    ELSE IF post = "raise" THEN SkillResult(FALSE, "post_fault")
    ELSE IF run = "nonresult" THEN SkillResult(FALSE, "attr_fault")
    ELSE SkillResult(run = "ok", IF run = "ok" THEN "none" ELSE "run_error")

\* The message str(e) of the fault raised by the hooks, "none" without fault.
FaultMessage(pre, run, post) ==
    IF pre = "raise" THEN "pre_fault"
    ELSE IF run = "raise" THEN "run_fault"
    ELSE IF post = "raise" THEN "post_fault"
    ELSE IF run = "nonresult" THEN "attr_fault"
    ELSE "none"

\* ------------------------------------------------------- PipelineEvent
\* event tag, step (0 = None) and the success flag of a finish payload.
PipelineEvent(tag, step, ok) == [event |-> tag, step |-> step, ok |-> ok]

PipelineStatus == {"idle", "running", "paused", "success", "failed", "cancelled"}

\* Step numbers that carry a skill: 1..N of a base pipeline, 1..3 of RedBook.
SkillSlots == (1..MaxSkills) \cup (1..3)

\* run_stream without its try/except: a fault reaches the consumer.
AfterCallNoGuard(raised, success) ==
    IF raised THEN "raised"
    ELSE IF ~success THEN "after_error" ELSE "after_step_complete"

\* run_stream without the check of result.success.
AfterCallIgnoreFailure(raised, success) ==
    IF raised THEN "after_exc_error" ELSE "after_step_complete"

\* Where the generator is suspended next after the skill call of the loop
\* body: the except branch, the failure branch or the step_complete yield.
\* raised: a fault left the call (or another statement of the loop body).
AfterCall(raised, success) ==
    IF raised THEN "after_exc_error"
    ELSE IF ~success THEN "after_error" ELSE "after_step_complete"

\* A loop that stops one skill early.
LoopContinuesOffByOne(step, total) == step + 1 < total

\* A loop that leaves when the pipeline has been cancelled.
LoopContinuesUnlessCancelled(step, total) == step < total /\ status # "cancelled"

\* for i, skill in enumerate(self.skills): another skill is left to run.
LoopContinues(step, total) == step < total

\* RedBookPipeline._should_skip_skill / the guards of the three step blocks.
RbEnabled(s) ==
    \/ s = 1
    \/ s = 2 /\ ~skip_content
    \/ s = 3 /\ ~skip_images

\* The next step block that is not skipped; 4 is the completion block.
RbNextStage(n) ==
    IF n < 1 /\ RbEnabled(1) THEN 1
    ELSE IF n < 2 /\ RbEnabled(2) THEN 2
    ELSE IF n < 3 /\ RbEnabled(3) THEN 3
    ELSE 4

\* Events of GenerateImageSkill.run_stream as the pipeline's loop sees them;
\* the exhausted stream and a fault raised by it are branches of RbImages.
ImgEvents == {"progress", "complete", "error", "finish_ok", "finish_failed"}

\* self._context = None of a pipeline that has not run.
NoContext == [run_id |-> 0, variables |-> {}, results |-> {}]

\* The context argument of run_stream: the keys of the caller's mapping.
ContextArgs == {{}, {"trace"}}

\* uuid.uuid4(): a run id that no earlier run of the instance was given.
uuid4(given) == Len(given) + 1

\* A context that is carried over from the run before.
PipelineContextReused(previous, run_id, arg) ==
    [run_id |-> run_id,
     variables |-> previous.variables \cup {<<k, run_id>> : k \in arg},
     results |-> previous.results]

\* self._context = PipelineContext(); variables.update(context): the
\* variables and the results are new mappings; an entry is tagged with the
\* run that put it there.
PipelineContext(previous, run_id, arg) ==
    [run_id |-> run_id,
     variables |-> {<<k, run_id>> : k \in arg},
     results |-> {}]

\* self._context.results[skill.name] = result
StoreResult(ctx, step) == [ctx EXCEPT !.results = @ \cup {<<step, ctx.run_id>>}]

\* The handlers added with add_event_handler before the run, in that order.
PipelineHandlers == {1, 2}

\* try: handler(event) / except Exception: pass: whether the fault of a
\* handler leaves the loop of _emit_event.
EmitFaultEscapes(raises) == FALSE

\* BasePipeline._emit_event(event): for handler in self._event_handlers, a
\* handler is called unless a fault of an earlier one has left the loop.
emit_event(rcv, raising, ev) ==
    [h \in PipelineHandlers |->
        IF \E k \in PipelineHandlers : k < h /\ EmitFaultEscapes(k \in raising)
        THEN rcv[h] ELSE Append(rcv[h], ev)]

\* What a step of a generator does to the handlers. BasePipeline.run_stream
\* passes every event to _emit_event right before it yields it;
\* RedBookPipeline.run_stream overrides run_stream and yields its events
\* without a call of _emit_event.
HandlersCalled ==
    /\ UNCHANGED h_raising
    /\ LET restart == run_ids' # run_ids
           before == IF restart THEN [h \in PipelineHandlers |-> <<>>] ELSE received
           yielded == IF restart THEN events'
                      ELSE SubSeq(events', Len(events) + 1, Len(events'))
       IN received' = IF kind = "base" /\ yielded # <<>>
                      THEN emit_event(before, h_raising, yielded[1])
                      ELSE before

PipeInit ==
    /\ kind \in {"base", "redbook"}
    /\ total_skills \in 0..MaxSkills
    /\ skip_content \in BOOLEAN
    /\ skip_images \in BOOLEAN
    /\ kind = "redbook" => total_skills = 3
    /\ kind = "base" => (~skip_content /\ ~skip_images)
    /\ pc = "idle"
    /\ status = "idle"
    /\ current_step = 0
    /\ events = <<>>
    /\ calls = <<>>
    /\ skill_status = [i \in SkillSlots |-> "pending"]
    /\ img_pulled = 0
    /\ img_finished = FALSE
    /\ img_success = "none"
    /\ stage = 0
    /\ cancels = 0
    /\ cancel_ret = "none"
    /\ faulted = 0
    /\ context = NoContext
    /\ run_ids = <<>>
    /\ h_raising \in {{}, {1}}
    /\ received = [h \in PipelineHandlers |-> <<>>]

\* run_stream is called and its generator resumed for the first time: fresh
\* context, status RUNNING, yield start. The generator of an earlier run of
\* the instance, exhausted or not, is not resumed again.
RunStreamStart ==
    /\ Len(run_ids) < MaxRuns
    /\ \E arg \in ContextArgs :
         LET id == uuid4(run_ids)
         IN /\ context' = PipelineContext(context, id, arg)
            /\ run_ids' = Append(run_ids, id)
    /\ status' = "running"
    /\ current_step' = 0
    /\ events' = <<PipelineEvent("start", 0, "none")>>
    /\ pc' = "after_start"
    /\ calls' = <<>>
    /\ img_pulled' = 0
    /\ img_finished' = FALSE
    /\ img_success' = "none"
    /\ stage' = 0
    /\ faulted' = 0
    /\ UNCHANGED <<kind, total_skills, skip_content, skip_images,
                   skill_status, cancels, cancel_ret>>
    /\ HandlersCalled
    /\ UNCHANGED <<chanVars, busVars, concurrent, conVars, extVars, emVars, imgVars>>

\* BasePipeline: next iteration of the for loop yields progress, or the loop
\* is exhausted and the success finish is yielded.
BaseLoopHead ==
    /\ kind = "base"
    /\ pc \in {"after_start", "after_step_complete"}
    /\ IF LoopContinues(current_step, total_skills)
       THEN /\ current_step' = current_step + 1
            /\ events' = Append(events, PipelineEvent("progress", current_step + 1, "none"))
            /\ pc' = "after_progress"
            /\ UNCHANGED status
       ELSE /\ status' = "success"
            /\ events' = Append(events, PipelineEvent("finish", 0, "true"))
            /\ pc' = "after_finish"
            /\ UNCHANGED current_step
    /\ UNCHANGED <<kind, total_skills, skip_content, skip_images, calls,
                   skill_status, img_pulled, img_finished, img_success, stage,
                   cancels, cancel_ret, faulted>>
    /\ UNCHANGED ctxVars
    /\ HandlersCalled
    /\ UNCHANGED <<chanVars, busVars, concurrent, conVars, extVars, emVars, imgVars>>

\* The skill call of a step and the branch on its result, for the step
\* numbered s; excStep is the step the except branch puts in its error event.
\* esc: a fault raised in the loop body outside BaseSkill.execute's own guard
\* (an overriding execute, a result whose data or to_dict is missing).
SkillStep(s, excStep) ==
    \E pre \in PreOutcomes, run \in RunOutcomes, post \in PostOutcomes, esc \in BOOLEAN :
      LET r == execute(pre, run, post)
          raised == esc \/ r.propagated
          target == AfterCall(raised, r.success)
      IN /\ calls' = Append(calls, [step |-> s, pre |-> pre, run |-> run,
                                    post |-> post, esc |-> esc, result |-> r])
         /\ skill_status' = [skill_status EXCEPT ![s] = r.status]
         /\ pc' = target
         /\ faulted' = IF raised THEN s ELSE faulted
         /\ context' = IF raised THEN context ELSE StoreResult(context, s)
         /\ UNCHANGED run_ids
         /\ IF target = "raised"
            THEN UNCHANGED <<status, events>>
            ELSE IF target = "after_exc_error"
            THEN /\ status' = "failed"
                 /\ events' = Append(events, PipelineEvent("error", excStep, "none"))
            ELSE IF target = "after_error"
            THEN /\ UNCHANGED status
                 /\ events' = Append(events, PipelineEvent("error", s, "none"))
            ELSE /\ UNCHANGED status
                 /\ events' = Append(events, PipelineEvent("step_complete", s, "none"))

\* BasePipeline: skill.execute and the branch on result.success.
BaseExecute ==
    /\ kind = "base"
    /\ pc = "after_progress"
    /\ SkillStep(current_step, current_step)
    /\ UNCHANGED <<kind, total_skills, skip_content, skip_images, current_step,
                   img_pulled, img_finished, img_success, stage, cancels, cancel_ret>>
    /\ HandlersCalled
    /\ UNCHANGED <<chanVars, busVars, concurrent, conVars, extVars, emVars, imgVars>>

\* Failure branch after the error event: status FAILED, yield finish(false).
ResumeAfterError ==
    /\ pc = "after_error"
    /\ status' = "failed"
    /\ events' = Append(events, PipelineEvent("finish", 0, "false"))
    /\ pc' = "after_finish"
    /\ UNCHANGED <<kind, total_skills, skip_content, skip_images, current_step, calls,
                   skill_status, img_pulled, img_finished, img_success, stage,
                   cancels, cancel_ret, faulted>>
    /\ UNCHANGED ctxVars
    /\ HandlersCalled
    /\ UNCHANGED <<chanVars, busVars, concurrent, conVars, extVars, emVars, imgVars>>

\* except branch after its error event: yield finish(false).
ResumeAfterExcError ==
    /\ pc = "after_exc_error"
    /\ events' = Append(events, PipelineEvent("finish", 0, "false"))
    /\ pc' = "after_finish"
    /\ UNCHANGED <<kind, total_skills, skip_content, skip_images, status, current_step,
                   calls, skill_status, img_pulled, img_finished, img_success, stage,
                   cancels, cancel_ret, faulted>>
    /\ UNCHANGED ctxVars
    /\ HandlersCalled
    /\ UNCHANGED <<chanVars, busVars, concurrent, conVars, extVars, emVars, imgVars>>

\* After a finish event the generator returns: the sequence is exhausted.
ResumeAfterFinish ==
    /\ pc = "after_finish"
    /\ pc' = "done"
    /\ UNCHANGED <<kind, total_skills, skip_content, skip_images, status, current_step,
                   events, calls, skill_status, img_pulled, img_finished, img_success,
                   stage, cancels, cancel_ret, faulted>>
    /\ UNCHANGED ctxVars
    /\ HandlersCalled
    /\ UNCHANGED <<chanVars, busVars, concurrent, conVars, extVars, emVars, imgVars>>

\* RedBookPipeline: enter the next step block that is not skipped and yield
\* its progress event, or reach the completion block and yield finish(true).
RbAdvance ==
    /\ kind = "redbook"
    /\ pc \in {"after_start", "after_step_complete"}
    /\ LET s == RbNextStage(stage)
       IN IF s <= 3
          THEN /\ stage' = s
               /\ events' = Append(events, PipelineEvent("progress", s, "none"))
               /\ pc' = "after_progress"
               /\ UNCHANGED status
          ELSE /\ stage' = s
               /\ status' = "success"
               /\ events' = Append(events, PipelineEvent("finish", 0, "true"))
               /\ pc' = "after_finish"
    /\ UNCHANGED <<kind, total_skills, skip_content, skip_images, current_step, calls,
                   skill_status, img_pulled, img_finished, img_success,
                   cancels, cancel_ret, faulted>>
    /\ UNCHANGED ctxVars
    /\ HandlersCalled
    /\ UNCHANGED <<chanVars, busVars, concurrent, conVars, extVars, emVars, imgVars>>

\* RedBookPipeline steps 1 and 2: outline_skill.execute / content_skill.execute.
RbExecute ==
    /\ kind = "redbook"
    /\ pc = "after_progress"
    /\ stage \in {1, 2}
    /\ SkillStep(stage, 0)
    /\ UNCHANGED <<kind, total_skills, skip_content, skip_images, current_step,
                   img_pulled, img_finished, img_success, stage, cancels, cancel_ret>>
    /\ HandlersCalled
    /\ UNCHANGED <<chanVars, busVars, concurrent, conVars, extVars, emVars, imgVars>>

\* RedBookPipeline step 3: take the next event of image_skill.run_stream and
\* relay it; an exhausted stream falls through to the completion block.
RbImages ==
    /\ kind = "redbook"
    /\ \/ pc = "after_progress" /\ stage = 3
       \/ pc = "in_images"
    /\ \/ \E e \in ImgEvents :
            /\ ~img_finished
            /\ img_pulled < MaxImgEvents
            /\ img_pulled' = img_pulled + 1
            /\ pc' = "in_images"
            /\ UNCHANGED <<status, faulted>>
            /\ IF e \in {"finish_ok", "finish_failed"}
               THEN /\ img_finished' = TRUE
                    /\ img_success' = (IF e = "finish_ok" THEN "true" ELSE "false")
                    /\ context' = StoreResult(context, 3)
                    /\ events' = Append(events, PipelineEvent("step_complete", 3, "none"))
               ELSE /\ UNCHANGED <<img_finished, img_success, context>>
                    /\ events' = Append(events,
                          PipelineEvent(IF e = "progress" THEN "image_progress"
                                        ELSE IF e = "complete" THEN "image_complete"
                                        ELSE "image_error", 3, "none"))
       \/ /\ status' = "success"
          /\ events' = Append(events, PipelineEvent("finish", 0, "true"))
          /\ pc' = "after_finish"
          /\ UNCHANGED <<img_pulled, img_finished, img_success, faulted, context>>
       \/ /\ ~img_finished
          /\ pc' = AfterCall(TRUE, FALSE)
          /\ faulted' = 3
          /\ IF pc' = "raised"
             THEN UNCHANGED <<status, events>>
             ELSE /\ status' = "failed"
                  /\ events' = Append(events, PipelineEvent("error", 0, "none"))
          /\ UNCHANGED <<img_pulled, img_finished, img_success, context>>
    /\ UNCHANGED <<kind, total_skills, skip_content, skip_images, current_step, calls,
                   skill_status, stage, cancels, cancel_ret, run_ids>>
    /\ HandlersCalled
    /\ UNCHANGED <<chanVars, busVars, concurrent, conVars, extVars, emVars, imgVars>>

\* A cancel that does not look at the status.
CancelAllowedAlways(st) == TRUE

\* if self._status == PipelineStatus.RUNNING
CancelAllowed(st) == st = "running"

\* BasePipeline.cancel, callable by the consumer between two events.
cancel ==
    /\ cancels < MaxCancels
    /\ cancels' = cancels + 1
    /\ IF CancelAllowed(status)
       THEN status' = "cancelled" /\ cancel_ret' = "true"
       ELSE UNCHANGED status /\ cancel_ret' = "false"
    /\ UNCHANGED <<kind, total_skills, skip_content, skip_images, pc, current_step,
                   events, calls, skill_status, img_pulled, img_finished, img_success,
                   stage, faulted>>
    /\ UNCHANGED ctxVars
    /\ HandlersCalled
    /\ UNCHANGED <<chanVars, busVars, concurrent, conVars, extVars, emVars, imgVars>>

PipeNext ==
    \/ RunStreamStart
    \/ BaseLoopHead
    \/ BaseExecute
    \/ ResumeAfterError
    \/ ResumeAfterExcError
    \/ ResumeAfterFinish
    \/ RbAdvance
    \/ RbExecute
    \/ RbImages
    \/ cancel

\* ------------------------------------------------------------ SSEChannel
\* queue.Queue as SSEChannel uses it: maxsize <= 0 means unbounded.
QueueFull(q, maxsize) == maxsize > 0 /\ Len(q) >= maxsize

\* A LIFO get: the newest element leaves first.
get_nowait_newest(q) ==
    IF q = <<>> THEN [empty |-> TRUE, item |-> 0, rest |-> q]
    ELSE [empty |-> FALSE, item |-> q[Len(q)], rest |-> SubSeq(q, 1, Len(q) - 1)]

\* Queue.get_nowait: the oldest element, or the Empty fault.
get_nowait(q) ==
    IF q = <<>> THEN [empty |-> TRUE, item |-> 0, rest |-> q]
    ELSE [empty |-> FALSE, item |-> Head(q), rest |-> Tail(q)]

\* Queue.put_nowait: append, or the Full fault.
put_nowait(q, maxsize, ev) ==
    IF QueueFull(q, maxsize) THEN [full |-> TRUE, queue |-> q]
    ELSE [full |-> FALSE, queue |-> Append(q, ev)]

\* A channel whose queue is built without maxsize.
QueueMaxsizeUnbounded(max_size) == 0

\* SSEChannel.__init__: Queue(maxsize=max_size).
QueueMaxsize(max_size) == max_size

\* SSEChannel.__init__.
SSEChannel(channel_id, max_size) ==
    [channel_id |-> channel_id, max_size |-> max_size,
     maxsize |-> QueueMaxsize(max_size), queue |-> <<>>, closed |-> FALSE]

\* publish that keeps the buffer and refuses the new event when full.
publishDropNew(ch, ev) ==
    IF ch.closed THEN [ch |-> ch, ret |-> FALSE]
    ELSE LET p == put_nowait(ch.queue, ch.maxsize, ev)
         IN IF p.full THEN [ch |-> ch, ret |-> FALSE]
            ELSE [ch |-> [ch EXCEPT !.queue = p.queue], ret |-> TRUE]

\* SSEChannel.publish: closed check, eviction of one element when full
\* (Empty ignored), put_nowait; any fault is turned into False.
publish(ch, ev) ==
    IF ch.closed THEN [ch |-> ch, ret |-> FALSE]
    ELSE LET q1 == IF QueueFull(ch.queue, ch.maxsize)
                   THEN get_nowait(ch.queue).rest
                   ELSE ch.queue
             p == put_nowait(q1, ch.maxsize, ev)
         IN IF p.full THEN [ch |-> [ch EXCEPT !.queue = q1], ret |-> FALSE]
            ELSE [ch |-> [ch EXCEPT !.queue = p.queue], ret |-> TRUE]

\* SSEChannel.get_events: get(timeout) until Empty; with no producer running
\* meanwhile it returns everything buffered, oldest first.
RECURSIVE get_events(_)
get_events(q) ==
    LET g == get_nowait(q)
    IN IF g.empty THEN <<>> ELSE <<g.item>> \o get_events(g.rest)

\* SSEChannel.close (the subscriber set is bookkeeping only).
close(ch) == [ch EXCEPT !.closed = TRUE]

\* The last n elements of a sequence.
LastN(sq, n) == IF Len(sq) <= n THEN sq ELSE SubSeq(sq, Len(sq) - n + 1, Len(sq))

Min(a, b) == IF a <= b THEN a ELSE b

MaxCap == 3
MaxPublishes == 5

NoOp == [op |-> "none", ev |-> 0, ret |-> FALSE, got |-> <<>>, before |-> <<>>,
         open |-> TRUE, since |-> <<>>]

ChanInit ==
    /\ \E c \in 1..MaxCap : chan = SSEChannel("a", c)
    /\ ch_next = 0
    /\ ch_since = <<>>
    /\ ch_last = NoOp

\* channel.publish(event) by the single producer.
ChanPublish ==
    /\ ch_next < MaxPublishes
    /\ LET ev == ch_next + 1
           r == publish(chan, ev)
       IN /\ chan' = r.ch
          /\ ch_next' = ev
          /\ ch_since' = IF chan.closed THEN ch_since ELSE Append(ch_since, ev)
          /\ ch_last' = [op |-> "publish", ev |-> ev, ret |-> r.ret, got |-> <<>>,
                         before |-> chan.queue, open |-> ~chan.closed,
                         since |-> ch_since]
    /\ UNCHANGED <<pipeVars, busVars, concurrent, conVars, extVars, emVars, imgVars>>

\* channel.get_events() by the single consumer.
ChanGetEvents ==
    /\ LET got == get_events(chan.queue)
       IN /\ chan' = [chan EXCEPT !.queue = <<>>]
          /\ ch_since' = <<>>
          /\ ch_last' = [op |-> "get_events", ev |-> 0, ret |-> TRUE, got |-> got,
                         before |-> chan.queue, open |-> ~chan.closed,
                         since |-> ch_since]
    /\ UNCHANGED ch_next
    /\ UNCHANGED <<pipeVars, busVars, concurrent, conVars, extVars, emVars, imgVars>>

\* channel.close().
ChanClose ==
    /\ ~chan.closed
    /\ chan' = close(chan)
    /\ ch_last' = [op |-> "close", ev |-> 0, ret |-> TRUE, got |-> <<>>,
                   before |-> chan.queue, open |-> TRUE, since |-> ch_since]
    /\ UNCHANGED <<ch_next, ch_since>>
    /\ UNCHANGED <<pipeVars, busVars, concurrent, conVars, extVars, emVars, imgVars>>

ChanNext ==
    \/ ChanPublish
    \/ ChanGetEvents
    \/ ChanClose

\* -------------------------------------------------- EventEmitter / EventBus
NumThreads == 2
MaxHandlers == 2
MaxBusEvents == 1
MaxBusCalls == 2
\* create_channel(channel_id, max_size=100)
DefaultMaxSize == 100

Threads == 1..NumThreads
EventTypes == {"info", "error"}
\* Channel ids a caller can pass: "" is the empty string, "NONE" is None.
ChanIds == {"", "a"}
None == "NONE"

\* Python truthiness of an Optional[str].
Truthy(cid) == cid # None /\ cid # ""

\* publish that never forwards the event to a channel.
PublishesToChannelNever(cid, registered) == FALSE

\* EventBus.publish: if channel_id and channel_id in self._channels.
PublishesToChannel(cid, registered) == Truthy(cid) /\ cid \in registered

\* __init__ that never takes its early return.
InitSkipsNever(flag) == FALSE

\* EventBus.__init__: if self._initialized: return.
InitSkips(flag) == flag = "true"

\* EventEmitter.emit: the handlers of the event's type in registration order,
\* then the wildcard handlers.
emit(hs, wild, type) == hs[type] \o wild

NoPub == [cid |-> None, registered |-> FALSE, open |-> FALSE, invoked |-> <<>>,
          h_type |-> <<>>, h_wild |-> <<>>, enqueued |-> {}, changed |-> {}, n |-> 0]

BusInit ==
    /\ cls_instance = 0
    /\ initialized = "unset"
    /\ lock = 0
    /\ emitter = 0
    /\ emitter_installs = 0
    /\ registry = 0
    /\ registry_installs = 0
    /\ handlers = [ty \in EventTypes |-> <<>>]
    /\ wildcard = <<>>
    /\ channels = [c \in ChanIds |-> <<>>]
    /\ tpc = [t \in Threads |-> "idle"]
    /\ ret = [t \in Threads |-> 0]
    /\ ret_emitter = [t \in Threads |-> 0]
    /\ calls_done = 0
    /\ first_ret = 0
    /\ first_emitter = 0
    /\ reg_handlers = {}
    /\ reg_channels = {}
    /\ next_handler = 0
    /\ bus_events = 0
    /\ attr_fault = FALSE
    /\ last_pub = NoPub

\* Whether thread t may take a step now: always when calls may overlap,
\* otherwise only while every other thread is outside EventBus().
Turn(t) == concurrent \/ \A u \in Threads \ {t} : tpc[u] = "idle"

Goto(t, p) == tpc' = [tpc EXCEPT ![t] = p]

\* get_event_bus() -> EventBus() -> __new__, line 196: first check, no lock.
NewCheck(t) ==
    /\ Turn(t)
    /\ tpc[t] = "idle"
    /\ calls_done < MaxBusCalls
    /\ Goto(t, IF cls_instance = 0 THEN "acquire" ELSE "init_check")
    /\ UNCHANGED <<busObjVars, busHistVars, busUseVars, ret, ret_emitter, attr_fault>>
    /\ UNCHANGED <<pipeVars, chanVars, concurrent, conVars, extVars, emVars, imgVars>>

\* line 197: with cls._lock.
NewAcquire(t) ==
    /\ Turn(t)
    /\ tpc[t] = "acquire"
    /\ lock = 0
    /\ lock' = t
    /\ Goto(t, "check2")
    /\ UNCHANGED <<cls_instance, initialized, emitter, emitter_installs, registry,
                   registry_installs, busHistVars, busUseVars, ret, ret_emitter, attr_fault>>
    /\ UNCHANGED <<pipeVars, chanVars, concurrent, conVars, extVars, emVars, imgVars>>

\* lines 198-199: second check and the allocation of the instance.
NewAlloc(t) ==
    /\ Turn(t)
    /\ tpc[t] = "check2"
    /\ IF cls_instance = 0
       THEN /\ cls_instance' = 1
            /\ initialized' = "unset"
            /\ Goto(t, "set_flag")
       ELSE /\ UNCHANGED <<cls_instance, initialized>>
            /\ Goto(t, "release")
    /\ UNCHANGED <<lock, emitter, emitter_installs, registry, registry_installs,
                   busHistVars, busUseVars, ret, ret_emitter, attr_fault>>
    /\ UNCHANGED <<pipeVars, chanVars, concurrent, conVars, extVars, emVars, imgVars>>

\* line 200: cls._instance._initialized = False.
NewSetFlag(t) ==
    /\ Turn(t)
    /\ tpc[t] = "set_flag"
    /\ initialized' = "false"
    /\ Goto(t, "release")
    /\ UNCHANGED <<cls_instance, lock, emitter, emitter_installs, registry,
                   registry_installs, busHistVars, busUseVars, ret, ret_emitter, attr_fault>>
    /\ UNCHANGED <<pipeVars, chanVars, concurrent, conVars, extVars, emVars, imgVars>>

\* end of the with block.
NewRelease(t) ==
    /\ Turn(t)
    /\ tpc[t] = "release"
    /\ lock' = 0
    /\ Goto(t, "init_check")
    /\ UNCHANGED <<cls_instance, initialized, emitter, emitter_installs, registry,
                   registry_installs, busHistVars, busUseVars, ret, ret_emitter, attr_fault>>
    /\ UNCHANGED <<pipeVars, chanVars, concurrent, conVars, extVars, emVars, imgVars>>

\* The call returns the instance to its caller, who reads bus.emitter.
Returned(t) ==
    /\ ret' = [ret EXCEPT ![t] = cls_instance]
    /\ ret_emitter' = [ret_emitter EXCEPT ![t] = emitter]
    /\ calls_done' = calls_done + 1
    /\ first_ret' = IF calls_done = 0 THEN cls_instance ELSE first_ret
    /\ first_emitter' = IF calls_done = 0 THEN emitter ELSE first_emitter
    /\ Goto(t, "idle")

\* __init__, lines 204-205: the read of self._initialized; the attribute is
\* missing between lines 199 and 200 of another thread's __new__.
InitCheck(t) ==
    /\ Turn(t)
    /\ tpc[t] = "init_check"
    /\ IF initialized = "unset"
       THEN /\ attr_fault' = TRUE
            /\ Goto(t, "idle")
            /\ UNCHANGED <<ret, ret_emitter, busHistVars>>
       ELSE IF InitSkips(initialized)
       THEN /\ Returned(t)
            /\ UNCHANGED attr_fault
       ELSE /\ Goto(t, "init_emitter")
            /\ UNCHANGED <<ret, ret_emitter, busHistVars, attr_fault>>
    /\ UNCHANGED <<busObjVars, busUseVars>>
    /\ UNCHANGED <<pipeVars, chanVars, concurrent, conVars, extVars, emVars, imgVars>>

\* line 206: self._emitter = EventEmitter().
InitEmitter(t) ==
    /\ Turn(t)
    /\ tpc[t] = "init_emitter"
    /\ emitter_installs' = emitter_installs + 1
    /\ emitter' = emitter_installs + 1
    /\ handlers' = [ty \in EventTypes |-> <<>>]
    /\ wildcard' = <<>>
    /\ Goto(t, "init_channels")
    /\ UNCHANGED <<cls_instance, initialized, lock, registry, registry_installs,
                   channels, reg_handlers, reg_channels, next_handler,
                   bus_events, last_pub, busHistVars, ret, ret_emitter, attr_fault>>
    /\ UNCHANGED <<pipeVars, chanVars, concurrent, conVars, extVars, emVars, imgVars>>

\* line 207: self._channels = {}.
InitChannels(t) ==
    /\ Turn(t)
    /\ tpc[t] = "init_channels"
    /\ registry_installs' = registry_installs + 1
    /\ registry' = registry_installs + 1
    /\ channels' = [c \in ChanIds |-> <<>>]
    /\ Goto(t, "init_flag")
    /\ UNCHANGED <<cls_instance, initialized, lock, emitter, emitter_installs,
                   handlers, wildcard, reg_handlers, reg_channels,
                   next_handler, bus_events, last_pub, busHistVars, ret, ret_emitter,
                   attr_fault>>
    /\ UNCHANGED <<pipeVars, chanVars, concurrent, conVars, extVars, emVars, imgVars>>

\* line 208: self._initialized = True, and the return of the call.
InitFlag(t) ==
    /\ Turn(t)
    /\ tpc[t] = "init_flag"
    /\ initialized' = "true"
    /\ UNCHANGED <<cls_instance, lock, emitter, emitter_installs, registry,
                   registry_installs>>
    /\ Returned(t)
    /\ UNCHANGED <<busUseVars, attr_fault>>
    /\ UNCHANGED <<pipeVars, chanVars, concurrent, conVars, extVars, emVars, imgVars>>

\* A thread that holds the bus and is not inside a call.
Holds(t) == tpc[t] = "idle" /\ ret[t] # 0

\* bus.emitter.on(event_type, handler) / bus.emitter.on_all(handler).
BusOn(t) ==
    /\ Turn(t)
    /\ Holds(t)
    /\ next_handler < MaxHandlers
    /\ LET h == next_handler + 1
       IN /\ next_handler' = h
          /\ reg_handlers' = reg_handlers \cup {h}
          /\ \/ \E ty \in EventTypes :
                  /\ handlers' = [handlers EXCEPT ![ty] = Append(@, h)]
                  /\ UNCHANGED wildcard
             \/ /\ wildcard' = Append(wildcard, h)
                /\ UNCHANGED handlers
    /\ UNCHANGED <<busObjVars, busHistVars, channels, reg_channels,
                   bus_events, last_pub, tpc, ret, ret_emitter, attr_fault>>
    /\ UNCHANGED <<pipeVars, chanVars, concurrent, conVars, extVars, emVars, imgVars>>

\* EventBus.create_channel(channel_id): a new channel unless one is registered.
create_channel(t) ==
    /\ Turn(t)
    /\ Holds(t)
    /\ \E cid \in ChanIds :
         /\ channels' = IF channels[cid] = <<>>
                        THEN [channels EXCEPT ![cid] = <<SSEChannel(cid, DefaultMaxSize)>>]
                        ELSE channels
         /\ reg_channels' = reg_channels \cup {cid}
    /\ UNCHANGED <<busObjVars, busHistVars, handlers, wildcard, reg_handlers,
                   next_handler, bus_events, last_pub, tpc, ret, ret_emitter, attr_fault>>
    /\ UNCHANGED <<pipeVars, chanVars, concurrent, conVars, extVars, emVars, imgVars>>

\* EventBus.close_channel(channel_id): close the channel and drop it from the map.
close_channel(t) ==
    /\ Turn(t)
    /\ Holds(t)
    /\ \E cid \in ChanIds :
         /\ channels' = IF channels[cid] # <<>>
                        THEN [channels EXCEPT ![cid] = <<>>]
                        ELSE channels
         /\ reg_channels' = reg_channels \ {cid}
    /\ UNCHANGED <<busObjVars, busHistVars, handlers, wildcard, reg_handlers,
                   next_handler, bus_events, last_pub, tpc, ret, ret_emitter, attr_fault>>
    /\ UNCHANGED <<pipeVars, chanVars, concurrent, conVars, extVars, emVars, imgVars>>

\* bus.get_channel(channel_id).close(): SSEChannel.close on a registered channel.
ChannelClose(t) ==
    /\ Turn(t)
    /\ Holds(t)
    /\ \E cid \in ChanIds :
         /\ channels[cid] # <<>>
         /\ ~channels[cid][1].closed
         /\ channels' = [channels EXCEPT ![cid] = <<close(@[1])>>]
    /\ UNCHANGED <<busObjVars, busHistVars, handlers, wildcard, reg_handlers,
                   reg_channels, next_handler, bus_events, last_pub, tpc, ret,
                   ret_emitter, attr_fault>>
    /\ UNCHANGED <<pipeVars, chanVars, concurrent, conVars, extVars, emVars, imgVars>>

\* bus.get_channel(channel_id).get_events().
ChannelGetEvents(t) ==
    /\ Turn(t)
    /\ Holds(t)
    /\ \E cid \in ChanIds :
         /\ channels[cid] # <<>>
         /\ channels[cid][1].queue # <<>>
         /\ channels' = [channels EXCEPT ![cid] = <<[@[1] EXCEPT !.queue = <<>>]>>]
    /\ UNCHANGED <<busObjVars, busHistVars, handlers, wildcard, reg_handlers,
                   reg_channels, next_handler, bus_events, last_pub, tpc, ret,
                   ret_emitter, attr_fault>>
    /\ UNCHANGED <<pipeVars, chanVars, concurrent, conVars, extVars, emVars, imgVars>>

\* EventBus.publish(event, channel_id).
BusPublish(t) ==
    /\ Turn(t)
    /\ Holds(t)
    /\ bus_events < MaxBusEvents
    /\ \E ty \in EventTypes, cid \in ChanIds \cup {None} :
         LET ev == bus_events + 1
             registered == {c \in ChanIds : channels[c] # <<>>}
             after == IF PublishesToChannel(cid, registered)
                      THEN [channels EXCEPT ![cid] = <<publish(@[1], ev).ch>>]
                      ELSE channels
         IN /\ bus_events' = ev
            /\ channels' = after
            /\ last_pub' = [cid |-> cid,
                            registered |-> cid \in registered,
                            open |-> cid \in registered /\ ~channels[cid][1].closed,
                            invoked |-> emit(handlers, wildcard, ty),
                            h_type |-> handlers[ty],
                            h_wild |-> wildcard,
                            enqueued |-> {c \in registered :
                                           /\ after[c][1].queue # <<>>
                                           /\ after[c][1].queue[Len(after[c][1].queue)] = ev},
                            changed |-> {c \in ChanIds : after[c] # channels[c]},
                            n |-> ev]
    /\ UNCHANGED <<busObjVars, busHistVars, handlers, wildcard, reg_handlers,
                   reg_channels, next_handler, tpc, ret, ret_emitter, attr_fault>>
    /\ UNCHANGED <<pipeVars, chanVars, concurrent, conVars, extVars, emVars, imgVars>>

BusStep(t) ==
    \/ NewCheck(t)
    \/ NewAcquire(t)
    \/ NewAlloc(t)
    \/ NewSetFlag(t)
    \/ NewRelease(t)
    \/ InitCheck(t)
    \/ InitEmitter(t)
    \/ InitChannels(t)
    \/ InitFlag(t)
    \/ BusOn(t)
    \/ create_channel(t)
    \/ close_channel(t)
    \/ ChannelClose(t)
    \/ ChannelGetEvents(t)
    \/ BusPublish(t)

\* Threads interleave at statement boundaries.
BusNext == \E t \in Threads : BusStep(t)

\* ------------------------------------------------------- EventEmitter
MaxRegistrations == 3

HandlerIds == 1..MaxHandlers

\* A handler call whose Exception is not caught reaches the caller of emit.
HandlerFaultEscapesUnguarded(raises) == raises

\* try: handler(event) / except Exception: pass.
HandlerFaultEscapes(raises) == FALSE

\* One for-loop of emit over a handler list: the handlers called, in order,
\* and whether a fault left the loop.
RECURSIVE CallHandlers(_, _)
CallHandlers(hs, raising) ==
    IF hs = <<>> THEN [called |-> <<>>, escaped |-> FALSE]
    ELSE IF HandlerFaultEscapes(Head(hs) \in raising)
         THEN [called |-> <<Head(hs)>>, escaped |-> TRUE]
         ELSE LET rest == CallHandlers(Tail(hs), raising)
              IN [called |-> <<Head(hs)>> \o rest.called, escaped |-> rest.escaped]

\* EventEmitter.emit(event): the loop over self._handlers[event.type], then
\* the loop over self._wildcard_handlers.
EmitterEmit(hs, wild, type, raising) ==
    LET first == CallHandlers(hs[type], raising)
        second == CallHandlers(wild, raising)
    IN IF first.escaped THEN first
       ELSE [called |-> first.called \o second.called, escaped |-> second.escaped]

\* list.remove(x): drops the first occurrence.
RECURSIVE ListRemove(_, _)
ListRemove(sq, x) ==
    IF sq = <<>> THEN <<>>
    ELSE IF Head(sq) = x THEN Tail(sq)
    ELSE <<Head(sq)>> \o ListRemove(Tail(sq), x)

InList(sq, x) == \E i \in 1..Len(sq) : sq[i] = x

Registrations == Len(em_wildcard) + Len(em_handlers["info"]) + Len(em_handlers["error"])

\* em_last is the outcome of the latest call when that call was an emit,
\* NoEmit after any other call.
NoEmit == [type |-> "none", called |-> <<>>, escaped |-> FALSE,
           h_type |-> <<>>, h_wild |-> <<>>, raising |-> {}]

EmInit ==
    /\ em_handlers = [ty \in EventTypes |-> <<>>]
    /\ em_wildcard = <<>>
    /\ em_raising \in SUBSET HandlerIds
    /\ em_last = NoEmit

\* emitter.on(event_type, handler).
EmOn ==
    /\ Registrations < MaxRegistrations
    /\ \E ty \in EventTypes, h \in HandlerIds :
         em_handlers' = [em_handlers EXCEPT ![ty] = Append(@, h)]
    /\ em_last' = NoEmit
    /\ UNCHANGED <<em_wildcard, em_raising>>
    /\ UNCHANGED <<pipeVars, chanVars, busVars, concurrent, conVars, extVars, imgVars>>

\* emitter.on_all(handler).
EmOnAll ==
    /\ Registrations < MaxRegistrations
    /\ \E h \in HandlerIds : em_wildcard' = Append(em_wildcard, h)
    /\ em_last' = NoEmit
    /\ UNCHANGED <<em_handlers, em_raising>>
    /\ UNCHANGED <<pipeVars, chanVars, busVars, concurrent, conVars, extVars, imgVars>>

\* emitter.off(event_type, handler).
EmOff ==
    /\ \E ty \in EventTypes, h \in HandlerIds :
         /\ InList(em_handlers[ty], h)
         /\ em_handlers' = [em_handlers EXCEPT ![ty] = ListRemove(@, h)]
    /\ em_last' = NoEmit
    /\ UNCHANGED <<em_wildcard, em_raising>>
    /\ UNCHANGED <<pipeVars, chanVars, busVars, concurrent, conVars, extVars, imgVars>>

\* emitter.clear(event_type) / emitter.clear().
EmClear ==
    /\ Registrations > 0
    /\ \/ \E ty \in EventTypes :
            /\ em_handlers' = [em_handlers EXCEPT ![ty] = <<>>]
            /\ UNCHANGED em_wildcard
       \/ /\ em_handlers' = [ty \in EventTypes |-> <<>>]
          /\ em_wildcard' = <<>>
    /\ em_last' = NoEmit
    /\ UNCHANGED em_raising
    /\ UNCHANGED <<pipeVars, chanVars, busVars, concurrent, conVars, extVars, imgVars>>

\* emitter.emit(event).
EmEmit ==
    /\ \E ty \in EventTypes :
         LET r == EmitterEmit(em_handlers, em_wildcard, ty, em_raising)
         IN em_last' = [type |-> ty, called |-> r.called, escaped |-> r.escaped,
                        h_type |-> em_handlers[ty], h_wild |-> em_wildcard,
                        raising |-> em_raising]
    /\ UNCHANGED <<em_handlers, em_wildcard, em_raising>>
    /\ UNCHANGED <<pipeVars, chanVars, busVars, concurrent, conVars, extVars, imgVars>>

EmNext ==
    \/ EmOn
    \/ EmOnAll
    \/ EmOff
    \/ EmClear
    \/ EmEmit

\* --------------------------------------------------- GenerateImageSkill
MaxPages == 3
MaxWorkers == 2
MaxRetries == 1

\* REQUEST_DELAY = 35
REQUEST_DELAY == 35

TaskIds == {"t1", "t2"}
PageIndices == 1..MaxPages
PageTypes == {"cover", "content"}

\* A page list: the page at position i has index i, every page has its
\* type and content keys.
PageLists ==
    UNION {[1..n -> PageTypes] : n \in 0..MaxPages}

Page(pages, i) == [index |-> i, type |-> pages[i]]

\* Image bytes; NoImage is None.
NoImage == [task |-> "NONE", index |-> 0, compressed |-> FALSE]
ImageBytes(task, index) == [task |-> task, index |-> index, compressed |-> FALSE]

\* compress_image(image, max_size_kb=200)
compress_image(image) == [image EXCEPT !.compressed = TRUE]

\* Outcomes of client.generate_image followed by _save_image inside the try
\* block of _generate_single_image.
GenOutcomes == {"ok", "fail"}

\* _generate_single_image: (index, success, filename, error, image_bytes);
\* the file name is "<index>.png" and is identified with the index.
generate_single_image(task, index, outcome) ==
    [index |-> index, success |-> outcome = "ok",
     bytes |-> IF outcome = "ok" THEN ImageBytes(task, index) ELSE NoImage]

\* An input check that lets every page list through.
InputUsableAlways(pages) == TRUE

\* if not pages: yield error, return.
InputUsable(pages) == pages # <<>>

\* Cover selection that takes the first page whatever the types are.
SelectCoverFirstPage(pages) ==
    [cover |-> IF Len(pages) > 0 THEN 1 ELSE 0,
     other |-> [k \in 1..(Len(pages) - 1) |-> k + 1]]

RECURSIVE NonCover(_, _)
NonCover(pages, from) ==
    IF from > Len(pages) THEN <<>>
    ELSE IF pages[from] = "cover" THEN NonCover(pages, from + 1)
    ELSE <<from>> \o NonCover(pages, from + 1)

\* The loop over pages: cover_page is the last page of type cover, the
\* others are collected in order; without a cover page the first page is
\* the cover and the rest are the others.
SelectCover(pages) ==
    LET covers == {i \in 1..Len(pages) : pages[i] = "cover"}
        last == CHOOSE i \in covers : \A j \in covers : j <= i
    IN IF covers # {} THEN [cover |-> last, other |-> NonCover(pages, 1)]
       ELSE IF Len(pages) > 0
            THEN [cover |-> 1, other |-> [k \in 1..(Len(pages) - 1) |-> k + 1]]
            ELSE [cover |-> 0, other |-> <<>>]

\* The reference passed to the calls of the second phase: cover_image_data.
BatchReference(cover) == cover

\* self._task_states[task_id] = {...}
NewTaskState(pages) ==
    [pages |-> pages, generated |-> {}, failed |-> {}, cover_image |-> NoImage]

\* A notification: event, and the keys of its data.
Notify(event, stat, index, phase, current, total) ==
    [event |-> event, status |-> stat, index |-> index, phase |-> phase,
     current |-> current, total |-> total, success |-> FALSE, completed |-> 0,
     failed |-> 0, failed_indices |-> <<>>]

\* The finish notification.
FinishEvent(gen, fail, total) ==
    [event |-> "finish", status |-> "none", index |-> 0, phase |-> "none",
     current |-> 0, total |-> total, success |-> Len(fail) = 0,
     completed |-> Len(gen), failed |-> Len(fail), failed_indices |-> fail]

\* The error notification of an unusable input.
InputError == Notify("error", "none", 0, "none", 0, 0)

\* Entries of the log of generator calls.
CallStart(src, task, index, ref, dir) ==
    [at |-> "start", src |-> src, task |-> task, index |-> index, ref |-> ref,
     dir |-> dir, ok |-> FALSE]
CallEnd(src, task, index, ref, dir, ok) ==
    [at |-> "end", src |-> src, task |-> task, index |-> index, ref |-> ref,
     dir |-> dir, ok |-> ok]
Sleep(task) ==
    [at |-> "sleep", src |-> "run", task |-> task, index |-> 0, ref |-> NoImage,
     dir |-> task, ok |-> FALSE]

NoRetry == [task |-> "NONE", index |-> 0, success |-> FALSE, use_reference |-> FALSE,
            calls |-> <<>>]

NoRun == [task |-> "NONE", pages |-> <<>>, calls |-> <<>>, finished |-> FALSE,
          success |-> FALSE]

Idle == [i \in PageIndices |-> "none"]

\* No generator has been created.
GenParked ==
    /\ g_pc = "none" /\ g_task = "NONE" /\ g_pages = <<>> /\ g_cover = 0
    /\ g_other = <<>> /\ g_i = 0 /\ generated_images = <<>> /\ failed_pages = <<>>
    /\ cover_image_data = NoImage /\ futures = Idle /\ g_events = <<>>
    /\ g_log = <<>> /\ g_extra = 0

\* No call of run or retry_single_image has been made.
CallsParked ==
    /\ last_run = NoRun /\ last_retry = NoRetry /\ g_retries = 0
    /\ last_cleanup = "NONE"

ImgInit ==
    /\ high_concurrency \in BOOLEAN
    /\ request_delay \in {0, REQUEST_DELAY}
    /\ max_concurrent \in 1..MaxWorkers
    /\ task_states = [t \in TaskIds |-> <<>>]
    /\ current_task_id = "NONE"
    /\ GenParked
    /\ CallsParked

\* Updates of self._task_states[task_id].
MarkGenerated(ts, task, index) ==
    [ts EXCEPT ![task] = <<[@[1] EXCEPT !.generated = @ \cup {index}]>>]
MarkFailed(ts, task, index) ==
    [ts EXCEPT ![task] = <<[@[1] EXCEPT !.failed = @ \cup {index}]>>]
KeepCover(ts, task, image) ==
    [ts EXCEPT ![task] = <<[@[1] EXCEPT !.cover_image = image]>>]

\* A scheduler that calls the generator a second time after a failure.
GeneratorCallsRetrying(src, task, index, ref, dir, ok) ==
    IF ok THEN <<CallStart(src, task, index, ref, dir),
                 CallEnd(src, task, index, ref, dir, ok)>>
    ELSE <<CallStart(src, task, index, ref, dir),
           CallEnd(src, task, index, ref, dir, ok),
           CallStart(src, task, index, ref, dir),
           CallEnd(src, task, index, ref, dir, ok)>>

\* One synchronous call of _generate_single_image, as the log records it.
GeneratorCalls(src, task, index, ref, dir, ok) ==
    <<CallStart(src, task, index, ref, dir), CallEnd(src, task, index, ref, dir, ok)>>

\* A sequential loop that leaves out the last page.
SeqLoopStopsEarly(i, n) == i + 1 < n

\* for i, page in enumerate(other_pages): whether a page is left.
SeqLoopContinues(i, n) == i < n

\* A pool that starts every submitted call at once.
WorkerFreeAlways(running, workers) == TRUE

\* ThreadPoolExecutor(max_workers=self.MAX_CONCURRENT): a queued call starts
\* when fewer than max_workers calls are running.
WorkerFree(running, workers) == running < workers

\* A finish notification that reports success whatever failed.
FinishReportsSuccess(gen, fail, total) ==
    [FinishEvent(gen, fail, total) EXCEPT !.success = TRUE]

\* The finish notification of run_stream.
Finish(gen, fail, total) == FinishEvent(gen, fail, total)

Total == Len(g_pages)

\* gen = run_stream(input_data) and the first next(gen): input checks, task
\* state, cover selection, the first notification.
GenStart ==
    /\ g_pc = "none"
    /\ \E pages \in PageLists, task \in TaskIds :
         LET sel == SelectCover(pages)
         IN /\ g_pages' = pages
            /\ g_task' = task
            /\ g_cover' = sel.cover
            /\ g_other' = sel.other
            /\ IF ~InputUsable(pages)
               THEN /\ g_events' = <<InputError>>
                    /\ g_pc' = "at_input_error"
                    /\ UNCHANGED <<task_states, current_task_id>>
               ELSE /\ current_task_id' = task
                    /\ task_states' = [task_states EXCEPT ![task] = <<NewTaskState(pages)>>]
                    /\ IF sel.cover # 0
                       THEN /\ g_events' = <<Notify("progress", "generating", sel.cover,
                                                    "cover", 1, Len(pages))>>
                            /\ g_pc' = "at_cover_progress"
                       ELSE /\ g_events' = <<Finish(<<>>, <<>>, Len(pages))>>
                            /\ g_pc' = "at_finish"
    /\ g_i' = 0
    /\ generated_images' = <<>>
    /\ failed_pages' = <<>>
    /\ cover_image_data' = NoImage
    /\ futures' = Idle
    /\ g_log' = <<>>
    /\ g_extra' = 0
    /\ UNCHANGED <<last_cleanup, high_concurrency, request_delay, max_concurrent, last_run,
                   g_retries, last_retry>>
    /\ UNCHANGED <<pipeVars, chanVars, busVars, concurrent, conVars, extVars, emVars>>

\* The effect of one result of _generate_single_image on the locals and on
\* the task state, and the notification that follows it.
Outcome(index, ok, bytes, phase, keep) ==
    /\ IF ok
       THEN /\ generated_images' = Append(generated_images, index)
            /\ UNCHANGED failed_pages
            /\ IF keep
               THEN /\ cover_image_data' = compress_image(bytes)
                    /\ task_states' = KeepCover(MarkGenerated(task_states, g_task, index),
                                                g_task, compress_image(bytes))
               ELSE /\ UNCHANGED cover_image_data
                    /\ task_states' = MarkGenerated(task_states, g_task, index)
            /\ g_events' = Append(g_events, Notify("complete", "done", index, phase, 0, 0))
       ELSE /\ failed_pages' = Append(failed_pages, index)
            /\ UNCHANGED <<generated_images, cover_image_data>>
            /\ task_states' = MarkFailed(task_states, g_task, index)
            /\ g_events' = Append(g_events, Notify("error", "error", index, phase, 0, 0))

\* Resumed at the cover's progress notification: the cover is generated with
\* reference_image=None.
GenCover ==
    /\ g_pc = "at_cover_progress"
    /\ \E o \in GenOutcomes :
         LET r == generate_single_image(g_task, g_cover, o)
         IN /\ g_log' = g_log \o GeneratorCalls("run", g_task, g_cover, NoImage,
                                                current_task_id, r.success)
            /\ Outcome(r.index, r.success, r.bytes, "cover", TRUE)
            /\ g_pc' = IF r.success THEN "at_cover_complete" ELSE "at_cover_error"
    /\ UNCHANGED <<last_cleanup, high_concurrency, request_delay, max_concurrent, current_task_id,
                   g_task, g_pages, g_cover, g_other, g_i, futures, last_run,
                   g_retries, g_extra, last_retry>>
    /\ UNCHANGED <<pipeVars, chanVars, busVars, concurrent, conVars, extVars, emVars>>

\* Resumed at the cover's complete notification with a delay configured and
\* pages left: the waiting notification.
GenCoverWait ==
    /\ g_pc = "at_cover_complete"
    /\ request_delay > 0 /\ g_other # <<>>
    /\ g_events' = Append(g_events, Notify("progress", "waiting", 0, "cover", 1, Total))
    /\ g_pc' = "at_cover_wait"
    /\ UNCHANGED <<last_cleanup, high_concurrency, request_delay, max_concurrent, task_states,
                   current_task_id, g_task, g_pages, g_cover, g_other, g_i,
                   generated_images, failed_pages, cover_image_data, futures,
                   g_log, last_run, g_retries, g_extra, last_retry>>
    /\ UNCHANGED <<pipeVars, chanVars, busVars, concurrent, conVars, extVars, emVars>>

\* The end of the first phase: time.sleep when resumed at the waiting
\* notification, then batch_start if pages are left and finish otherwise.
GenBatchStart ==
    /\ \/ g_pc \in {"at_cover_error", "at_cover_wait"}
       \/ g_pc = "at_cover_complete" /\ ~(request_delay > 0 /\ g_other # <<>>)
    /\ g_log' = IF g_pc = "at_cover_wait" THEN Append(g_log, Sleep(g_task)) ELSE g_log
    /\ IF g_other # <<>>
       THEN /\ g_events' = Append(g_events, Notify("progress", "batch_start", 0, "content",
                                                   Len(generated_images), Total))
            /\ g_pc' = "at_batch_start"
       ELSE /\ g_events' = Append(g_events, Finish(generated_images, failed_pages, Total))
            /\ g_pc' = "at_finish"
    /\ UNCHANGED <<last_cleanup, high_concurrency, request_delay, max_concurrent, task_states,
                   current_task_id, g_task, g_pages, g_cover, g_other, g_i,
                   generated_images, failed_pages, cover_image_data, futures,
                   last_run, g_retries, g_extra, last_retry>>
    /\ UNCHANGED <<pipeVars, chanVars, busVars, concurrent, conVars, extVars, emVars>>

ProgressOf(index) ==
    Notify("progress", "generating", index, "content", Len(generated_images) + 1, Total)

FrameSeq ==
    UNCHANGED <<last_cleanup, high_concurrency, request_delay, max_concurrent, task_states,
                current_task_id, g_task, g_pages, g_cover, g_other,
                generated_images, failed_pages, cover_image_data, futures,
                last_run, g_retries, g_extra, last_retry>>

\* Sequential mode, the head of the loop over other_pages: the waiting
\* notification before every page but the first when a delay is configured,
\* else the page's progress notification; finish after the last page.
GenSeqNext ==
    /\ ~high_concurrency
    /\ \/ /\ g_pc = "at_batch_start"
          /\ g_i' = 1
          /\ g_events' = Append(g_events, ProgressOf(g_other[1]))
          /\ g_pc' = "at_seq_progress"
          /\ UNCHANGED g_log
       \/ /\ g_pc = "at_seq_event"
          /\ SeqLoopContinues(g_i, Len(g_other))
          /\ g_i' = g_i + 1
          /\ IF request_delay > 0
             THEN /\ g_events' = Append(g_events, Notify("progress", "waiting", g_other[g_i + 1],
                                                         "content", Len(generated_images), Total))
                  /\ g_pc' = "at_seq_wait"
             ELSE /\ g_events' = Append(g_events, ProgressOf(g_other[g_i + 1]))
                  /\ g_pc' = "at_seq_progress"
          /\ UNCHANGED g_log
       \/ /\ g_pc = "at_seq_wait"
          /\ g_log' = Append(g_log, Sleep(g_task))
          /\ g_events' = Append(g_events, ProgressOf(g_other[g_i]))
          /\ g_pc' = "at_seq_progress"
          /\ UNCHANGED g_i
       \/ /\ g_pc = "at_seq_event"
          /\ ~SeqLoopContinues(g_i, Len(g_other))
          /\ g_events' = Append(g_events, Finish(generated_images, failed_pages, Total))
          /\ g_pc' = "at_finish"
          /\ UNCHANGED <<g_i, g_log>>
    /\ FrameSeq
    /\ UNCHANGED <<pipeVars, chanVars, busVars, concurrent, conVars, extVars, emVars>>

\* Sequential mode, resumed at a page's progress notification: the page is
\* generated with the compressed cover as reference.
GenSeqCall ==
    /\ g_pc = "at_seq_progress"
    /\ \E o \in GenOutcomes :
         LET r == generate_single_image(g_task, g_other[g_i], o)
         IN /\ g_log' = g_log \o GeneratorCalls("run", g_task, r.index,
                                                BatchReference(cover_image_data),
                                                current_task_id, r.success)
            /\ Outcome(r.index, r.success, r.bytes, "content", FALSE)
    /\ g_pc' = "at_seq_event"
    /\ UNCHANGED <<last_cleanup, high_concurrency, request_delay, max_concurrent, current_task_id,
                   g_task, g_pages, g_cover, g_other, g_i, futures, last_run,
                   g_retries, g_extra, last_retry>>
    /\ UNCHANGED <<pipeVars, chanVars, busVars, concurrent, conVars, extVars, emVars>>

Running == {i \in PageIndices : futures[i] = "running"}
Queued == {i \in PageIndices : futures[i] = "queued"}
Finished == {i \in PageIndices : futures[i] \in {"ok", "fail"}}

\* The first queued page in submission order.
FirstQueued == CHOOSE k \in 1..Len(g_other) :
                  /\ futures[g_other[k]] = "queued"
                  /\ \A j \in 1..(k - 1) : futures[g_other[j]] # "queued"

FramePool ==
    UNCHANGED <<last_cleanup, high_concurrency, request_delay, max_concurrent, task_states,
                current_task_id, g_pc, g_task, g_pages, g_cover, g_other, g_i,
                generated_images, failed_pages, cover_image_data, g_events,
                last_run, g_retries, g_extra, last_retry>>

\* Concurrent mode, resumed at batch_start: every other page is submitted to
\* the executor; the generator then blocks in as_completed.
ConcSubmit ==
    /\ high_concurrency
    /\ g_pc = "at_batch_start"
    /\ futures' = [i \in PageIndices |->
                     IF \E k \in 1..Len(g_other) : g_other[k] = i THEN "queued" ELSE "none"]
    /\ g_pc' = "conc_wait"
    /\ UNCHANGED <<last_cleanup, high_concurrency, request_delay, max_concurrent, task_states,
                   current_task_id, g_task, g_pages, g_cover, g_other, g_i,
                   generated_images, failed_pages, cover_image_data, g_events,
                   g_log, last_run, g_retries, g_extra, last_retry>>
    /\ UNCHANGED <<pipeVars, chanVars, busVars, concurrent, conVars, extVars, emVars>>

\* A worker thread takes the next queued call and enters
\* _generate_single_image.
WorkerStart ==
    /\ Queued # {}
    /\ WorkerFree(Cardinality(Running), max_concurrent)
    /\ LET i == g_other[FirstQueued]
       IN /\ futures' = [futures EXCEPT ![i] = "running"]
          /\ g_log' = Append(g_log, CallStart("run", g_task, i,
                                              BatchReference(cover_image_data),
                                              current_task_id))
    /\ FramePool
    /\ UNCHANGED <<pipeVars, chanVars, busVars, concurrent, conVars, extVars, emVars>>

\* A worker thread returns from _generate_single_image.
WorkerEnd ==
    /\ \E i \in Running, o \in GenOutcomes :
         /\ futures' = [futures EXCEPT ![i] = o]
         /\ g_log' = Append(g_log, CallEnd("run", g_task, i,
                                            BatchReference(cover_image_data),
                                            current_task_id, o = "ok"))
    /\ FramePool
    /\ UNCHANGED <<pipeVars, chanVars, busVars, concurrent, conVars, extVars, emVars>>

\* as_completed hands over a finished future: its result is recorded and
\* its notification yielded.
ConcCollect ==
    /\ g_pc = "conc_wait"
    /\ \E i \in Finished :
         LET r == generate_single_image(g_task, i, futures[i])
         IN /\ futures' = [futures EXCEPT ![i] = "collected"]
            /\ Outcome(r.index, r.success, r.bytes, "content", FALSE)
    /\ g_pc' = "at_conc_event"
    /\ UNCHANGED <<last_cleanup, high_concurrency, request_delay, max_concurrent, current_task_id,
                   g_task, g_pages, g_cover, g_other, g_i, g_log, last_run,
                   g_retries, g_extra, last_retry>>
    /\ UNCHANGED <<pipeVars, chanVars, busVars, concurrent, conVars, extVars, emVars>>

\* Resumed at a notification of the concurrent loop: back into as_completed
\* while futures are left, else the executor is shut down and finish is
\* yielded.
ConcResume ==
    /\ g_pc = "at_conc_event"
    /\ IF \E i \in PageIndices : futures[i] \in {"queued", "running", "ok", "fail"}
       THEN /\ g_pc' = "conc_wait"
            /\ UNCHANGED g_events
       ELSE /\ g_events' = Append(g_events, Finish(generated_images, failed_pages, Total))
            /\ g_pc' = "at_finish"
    /\ UNCHANGED <<last_cleanup, high_concurrency, request_delay, max_concurrent, task_states,
                   current_task_id, g_task, g_pages, g_cover, g_other, g_i,
                   generated_images, failed_pages, cover_image_data, futures,
                   g_log, last_run, g_retries, g_extra, last_retry>>
    /\ UNCHANGED <<pipeVars, chanVars, busVars, concurrent, conVars, extVars, emVars>>

\* Resumed at the last notification: the generator returns.
GenReturn ==
    /\ g_pc \in {"at_finish", "at_input_error"}
    /\ g_pc' = "done"
    /\ UNCHANGED <<last_cleanup, high_concurrency, request_delay, max_concurrent, task_states,
                   current_task_id, g_task, g_pages, g_cover, g_other, g_i,
                   generated_images, failed_pages, cover_image_data, futures,
                   g_events, g_log, last_run, g_retries, g_extra, last_retry>>
    /\ UNCHANGED <<pipeVars, chanVars, busVars, concurrent, conVars, extVars, emVars>>

\* next() on the exhausted generator raises StopIteration.
GenExhausted ==
    /\ g_pc = "done"
    /\ g_extra = 0
    /\ g_extra' = 1
    /\ UNCHANGED <<last_cleanup, high_concurrency, request_delay, max_concurrent, task_states,
                   current_task_id, g_pc, g_task, g_pages, g_cover, g_other, g_i,
                   generated_images, failed_pages, cover_image_data, futures,
                   g_events, g_log, last_run, g_retries, last_retry>>
    /\ UNCHANGED <<pipeVars, chanVars, busVars, concurrent, conVars, extVars, emVars>>

ImgNext ==
    \/ GenStart
    \/ GenCover
    \/ GenCoverWait
    \/ GenBatchStart
    \/ GenSeqNext
    \/ GenSeqCall
    \/ ConcSubmit
    \/ WorkerStart
    \/ WorkerEnd
    \/ ConcCollect
    \/ ConcResume
    \/ GenReturn
    \/ GenExhausted

\* ------------------------------------- run, retry_single_image as calls
\* run_stream drained to its end, as list(self.run_stream(...)) does it:
\* the pages of order from position k on, each generated once, outs giving
\* the outcome of the call for each index. acc carries the task states, the
\* calls made, generated_images, failed_pages and cover_image_data.
RECURSIVE Drain(_, _, _, _, _)
Drain(acc, task, order, outs, k) ==
    IF k > Len(order) THEN acc
    ELSE LET index == order[k]
             ref == IF k = 1 THEN NoImage ELSE BatchReference(acc.cover)
             r == generate_single_image(task, index, outs[index])
             cover == IF k = 1 /\ r.success THEN compress_image(r.bytes) ELSE acc.cover
             ts == IF ~r.success THEN MarkFailed(acc.ts, task, index)
                   ELSE IF k = 1
                        THEN KeepCover(MarkGenerated(acc.ts, task, index), task, cover)
                        ELSE MarkGenerated(acc.ts, task, index)
         IN Drain([ts |-> ts,
                   calls |-> acc.calls \o GeneratorCalls("run", task, index, ref, task, r.success),
                   gen |-> IF r.success THEN Append(acc.gen, index) ELSE acc.gen,
                   fail |-> IF r.success THEN acc.fail ELSE Append(acc.fail, index),
                   cover |-> cover],
                  task, order, outs, k + 1)

\* The state run_stream leaves behind for a non-empty page list.
Drained(ts, task, pages, outs) ==
    LET sel == SelectCover(pages)
    IN Drain([ts |-> [ts EXCEPT ![task] = <<NewTaskState(pages)>>], calls |-> <<>>,
              gen |-> <<>>, fail |-> <<>>, cover |-> NoImage],
             task, IF sel.cover # 0 THEN <<sel.cover>> \o sel.other ELSE <<>>, outs, 1)

\* The task states an earlier, finished run of a one-page list can have left.
\* RetryInit starts with at most one task holding such a state.
EarlierStates(task) ==
    {<<>>} \cup
    {<<Drained([t \in TaskIds |-> <<>>], task, <<"cover">>, <<o>>).ts[task][1]>> :
        o \in GenOutcomes}

RetryInit ==
    /\ high_concurrency = FALSE
    /\ request_delay = REQUEST_DELAY
    /\ max_concurrent = 1
    /\ task_states \in {ts \in [TaskIds -> UNION {EarlierStates(t) : t \in TaskIds}] :
                          /\ \A t \in TaskIds : ts[t] \in EarlierStates(t)
                          /\ \E u \in TaskIds : \A t \in TaskIds \ {u} : ts[t] = <<>>}
    /\ current_task_id \in {t \in TaskIds : task_states[t] # <<>>}
                           \cup {c \in {"NONE"} : \A t \in TaskIds : task_states[t] = <<>>}
    /\ GenParked
    /\ CallsParked

\* GenerateImageSkill.run(input_data): the stream is drained and the data of
\* its finish notification becomes the result; without one the result is a
\* failure.
run ==
    /\ last_run = NoRun
    /\ \E pages \in PageLists, task \in TaskIds :
         \E outs \in [1..Len(pages) -> GenOutcomes] :
            IF ~InputUsable(pages)
            THEN /\ last_run' = [task |-> task, pages |-> pages, calls |-> <<>>,
                                 finished |-> FALSE, success |-> FALSE]
                 /\ UNCHANGED <<task_states, current_task_id>>
            ELSE LET d == Drained(task_states, task, pages, outs)
                     fin == Finish(d.gen, d.fail, Len(pages))
                 IN /\ task_states' = d.ts
                    /\ current_task_id' = task
                    /\ last_run' = [task |-> task, pages |-> pages, calls |-> d.calls,
                                    finished |-> TRUE, success |-> fin.success]
    /\ UNCHANGED <<last_cleanup, high_concurrency, request_delay, max_concurrent, g_pc, g_task,
                   g_pages, g_cover, g_other, g_i, generated_images, failed_pages,
                   cover_image_data, futures, g_events, g_log, g_retries, g_extra,
                   last_retry>>
    /\ UNCHANGED <<pipeVars, chanVars, busVars, concurrent, conVars, extVars, emVars>>

\* A successful retry that records the file but keeps the failure entry.
RetryStoreKeepsFailure(st, index) ==
    [st EXCEPT !.generated = @ \cup {index}]

\* retry_single_image on success: generated[index] = filename and, if the
\* index is in failed, del failed[index].
RetryStore(st, index) ==
    [st EXCEPT !.generated = @ \cup {index}, !.failed = @ \ {index}]

\* A retry that records its page whatever the generator call gave.
RetryRecordsAlways(success, known) == known

\* if success: if task_id in self._task_states: the state is written.
RetryRecords(success, known) == success /\ known

\* retry_single_image(task_id, page, use_reference).
retry_single_image ==
    /\ g_retries < MaxRetries
    /\ \E task \in TaskIds, index \in PageIndices, use_reference \in BOOLEAN,
          o \in GenOutcomes :
         LET known == task_states[task] # <<>>
             ref == IF known /\ use_reference THEN task_states[task][1].cover_image
                    ELSE NoImage
             r == generate_single_image(task, index, o)
         IN /\ current_task_id' = task
            /\ task_states' = IF RetryRecords(r.success, known)
                              THEN [task_states EXCEPT ![task] = <<RetryStore(@[1], r.index)>>]
                              ELSE task_states
            /\ last_retry' = [task |-> task, index |-> index, success |-> r.success,
                              use_reference |-> use_reference,
                              calls |-> GeneratorCalls("retry", task, index, ref, task,
                                                       r.success)]
    /\ g_retries' = g_retries + 1
    /\ UNCHANGED <<last_cleanup, high_concurrency, request_delay, max_concurrent, g_pc, g_task,
                   g_pages, g_cover, g_other, g_i, generated_images, failed_pages,
                   cover_image_data, futures, g_events, g_log, last_run, g_extra>>
    /\ UNCHANGED <<pipeVars, chanVars, busVars, concurrent, conVars, extVars, emVars>>

RetryNext ==
    \/ run
    \/ retry_single_image

\* The skill before run, retry_single_image and cleanup_task are called on
\* it: a task has no state or the one a finished one-page run left.
CleanupInit ==
    /\ RetryInit
    /\ \A t \in TaskIds : task_states[t] # <<>> => task_states[t][1].failed = {}

\* A cleanup that disposes of every task state.
DelTaskStateAll(ts, task) == [t \in TaskIds |-> <<>>]

\* if task_id in self._task_states: del self._task_states[task_id]
DelTaskState(ts, task) == [ts EXCEPT ![task] = <<>>]

\* cleanup_task(task_id), called once.
cleanup_task ==
    /\ last_cleanup = "NONE"
    /\ \E task \in TaskIds :
         /\ task_states' = DelTaskState(task_states, task)
         /\ last_cleanup' = task
    /\ UNCHANGED <<high_concurrency, request_delay, max_concurrent, current_task_id,
                   g_pc, g_task, g_pages, g_cover, g_other, g_i, generated_images,
                   failed_pages, cover_image_data, futures, g_events, g_log,
                   last_run, g_retries, g_extra, last_retry>>
    /\ UNCHANGED <<pipeVars, chanVars, busVars, concurrent, conVars, extVars, emVars>>

\* run, retry_single_image and cleanup_task called one after another.
CleanupNext ==
    \/ run
    \/ retry_single_image
    \/ cleanup_task

\* ------------------------------------------------------ ConceptPipeline
MaxGenEvents == 3

\* build_skills returns the four concept skills; the fourth is the
\* ConceptGenerateSkill, which run_stream consumes as a stream.
ConceptSkills == 4

\* The fields of the SkillResult dataclass.
SkillResultFields == {"success", "data", "error", "metadata"}

\* SkillResult(**kwargs): a keyword that is no field raises TypeError.
Constructs(kwargs) == kwargs \subseteq SkillResultFields

\* skill.run of the first three steps: a successful result, an unsuccessful
\* one, or a fault.
ConceptOutcomes == {"ok", "failed", "raise"}

\* gen_event['type'] of the events of ConceptGenerateSkill.run_stream.
GenTypes == {"start", "progress", "result", "complete"}

ConEvent(tag, step) == [event |-> tag, step |-> step]

\* run() has not returned / returned a SkillResult / raised.
NoReturn == [kind |-> "none", success |-> FALSE, has_events |-> FALSE]
Returned_(success) == [kind |-> "result", success |-> success, has_events |-> FALSE]
Raised == [kind |-> "raised", success |-> FALSE, has_events |-> FALSE]

ConInit ==
    /\ skip_generate \in BOOLEAN
    /\ c_pc = "idle"
    /\ c_step = 0
    /\ c_events = <<>>
    /\ c_status = "idle"
    /\ c_pulled = 0
    /\ final_result = "none"
    /\ c_ret = NoReturn

ConParked ==
    /\ skip_generate = FALSE /\ c_pc = "idle" /\ c_step = 0 /\ c_events = <<>>
    /\ c_status = "idle" /\ c_pulled = 0 /\ final_result = "none" /\ c_ret = NoReturn

\* run() calls run_stream and takes its first event: status RUNNING, start.
ConRunStart ==
    /\ c_pc = "idle"
    /\ c_status' = "running"
    /\ c_events' = <<ConEvent("start", 0)>>
    /\ c_pc' = "after_start"
    /\ UNCHANGED <<skip_generate, c_step, c_pulled, final_result, c_ret>>
    /\ UNCHANGED <<pipeVars, chanVars, busVars, concurrent, emVars, imgVars, extVars>>

\* The head of the loop over self.skills: skip or step_start for the next
\* skill; after the last one status SUCCESS and the complete event, whose
\* result run() keeps as final_result.
ConLoopHead ==
    /\ c_pc \in {"after_start", "after_skip", "after_step_complete"}
    /\ IF c_step < ConceptSkills
       THEN /\ c_step' = c_step + 1
            /\ IF c_step + 1 = ConceptSkills /\ skip_generate
               THEN /\ c_events' = Append(c_events, ConEvent("skip", c_step + 1))
                    /\ c_pc' = "after_skip"
               ELSE /\ c_events' = Append(c_events, ConEvent("step_start", c_step + 1))
                    /\ c_pc' = "after_step_start"
            /\ UNCHANGED <<c_status, final_result>>
       ELSE /\ c_status' = "success"
            /\ c_events' = Append(c_events, ConEvent("complete", 0))
            /\ final_result' = "output"
            /\ c_pc' = "after_complete"
            /\ UNCHANGED c_step
    /\ UNCHANGED <<skip_generate, c_pulled, c_ret>>
    /\ UNCHANGED <<pipeVars, chanVars, busVars, concurrent, emVars, imgVars, extVars>>

\* Steps 1 to 3: skill.run(skill_input) inside try/except, then the branch
\* on result.success.
ConSkillRun ==
    /\ c_pc = "after_step_start"
    /\ c_step < ConceptSkills
    /\ \E o \in ConceptOutcomes :
         IF o = "ok"
         THEN /\ c_events' = Append(c_events, ConEvent("step_complete", c_step))
              /\ c_pc' = "after_step_complete"
         ELSE /\ c_events' = Append(c_events, ConEvent("step_error", c_step))
              /\ c_pc' = "after_step_error"
    /\ UNCHANGED <<skip_generate, c_step, c_status, c_pulled, final_result, c_ret>>
    /\ UNCHANGED <<pipeVars, chanVars, busVars, concurrent, emVars, imgVars, extVars>>

\* Step 4: the events of ConceptGenerateSkill.run_stream are relayed; when
\* the stream ends, SkillResult(success=, data=, message=) is constructed
\* inside the try block; a fault of the stream reaches the same except.
ConGenerate ==
    /\ \/ c_pc = "after_step_start" /\ c_step = ConceptSkills
       \/ c_pc = "in_generate"
    /\ \/ /\ c_pulled < MaxGenEvents
          /\ \E ty \in GenTypes :
               c_events' = Append(c_events, ConEvent("generate_" \o ty, c_step))
          /\ c_pulled' = c_pulled + 1
          /\ c_pc' = "in_generate"
       \/ /\ \E raised \in BOOLEAN :
               IF ~raised /\ Constructs({"success", "data", "message"})
               THEN /\ c_events' = Append(c_events, ConEvent("step_complete", c_step))
                    /\ c_pc' = "after_step_complete"
               ELSE /\ c_events' = Append(c_events, ConEvent("step_error", c_step))
                    /\ c_pc' = "after_step_error"
          /\ UNCHANGED c_pulled
    /\ UNCHANGED <<skip_generate, c_step, c_status, final_result, c_ret>>
    /\ UNCHANGED <<pipeVars, chanVars, busVars, concurrent, emVars, imgVars, extVars>>

\* After step_error: status FAILED and the error event; run() returns
\* SkillResult(success=False, error=) at that event and leaves the generator.
ConAfterStepError ==
    /\ c_pc = "after_step_error"
    /\ c_status' = "failed"
    /\ c_events' = Append(c_events, ConEvent("error", 0))
    /\ c_ret' = (IF Constructs({"success", "error"}) THEN Returned_(FALSE) ELSE Raised)
    /\ c_pc' = "abandoned"
    /\ UNCHANGED <<skip_generate, c_step, c_pulled, final_result>>
    /\ UNCHANGED <<pipeVars, chanVars, busVars, concurrent, emVars, imgVars, extVars>>

\* After complete the generator is exhausted and the loop of run() ends:
\* with a final_result it constructs SkillResult(success=True, data=,
\* message=), without one SkillResult(success=False, error=).
ConReturn ==
    /\ c_pc = "after_complete"
    /\ c_pc' = "done"
    /\ c_ret' = (IF final_result # "none"
                 THEN (IF Constructs({"success", "data", "message"})
                       THEN Returned_(TRUE) ELSE Raised)
                 ELSE Returned_(FALSE))
    /\ UNCHANGED <<skip_generate, c_step, c_events, c_status, c_pulled, final_result>>
    /\ UNCHANGED <<pipeVars, chanVars, busVars, concurrent, emVars, imgVars, extVars>>

ConNext ==
    \/ ConRunStart
    \/ ConLoopHead
    \/ ConSkillRun
    \/ ConGenerate
    \/ ConAfterStepError
    \/ ConReturn

\* ------------------------------------------- OutlineSkill / ContentSkill
\* What a caller can pass as topic or outline: None, "" or a text.
TextValues == {None, "", "text"}
\* The shape of input_data: the skill's input dataclass, a dict, or neither.
InputForms == {"dataclass", "dict", "other"}
\* generate_text returns a text or raises.
ClientOutcomes == {"ok", "raise"}

\* str(value) of a value that is neither the dataclass nor a dict.
Str(v) == IF v = None THEN "None" ELSE v

\* A validation that lets every input through.
MissingNever(v) == FALSE

\* `not topic`, `not outline`.
Missing(v) == ~Truthy(v)

\* The try block both skills share: one generate_text call, and a failure
\* result from the except clause if it raises.
GenerateText(skill, o) == [skill |-> skill, success |-> o = "ok", calls |-> 1]

NoText == [skill |-> "none", success |-> FALSE, calls |-> 0]

\* OutlineSkill.run: the topic of the dataclass or the dict, else
\* str(input_data); an empty topic is refused before the try block.
OutlineSkillRun(form, topic, o) ==
    LET t == IF form = "other" THEN Str(topic) ELSE topic
    IN IF Missing(t) THEN [skill |-> "outline", success |-> FALSE, calls |-> 0]
       ELSE GenerateText("outline", o)

\* ContentSkill.run: input that is neither the dataclass nor a dict is
\* refused, and so is an empty topic or an empty outline.
ContentSkillRun(form, topic, outline, o) ==
    IF form = "other" \/ Missing(topic) \/ Missing(outline)
    THEN [skill |-> "content", success |-> FALSE, calls |-> 0]
    ELSE GenerateText("content", o)

TxtParked == txt_last = [input |-> <<>>, result |-> NoText]

OutlineRun ==
    /\ \E form \in InputForms, topic \in TextValues, o \in ClientOutcomes :
         txt_last' = [input |-> <<form, topic>>, result |-> OutlineSkillRun(form, topic, o)]
    /\ UNCHANGED <<baseVars, mapVars, pubVars, svcVars>>

ContentRun ==
    /\ \E form \in InputForms, topic \in TextValues, outline \in TextValues,
          o \in ClientOutcomes :
         txt_last' = [input |-> <<form, topic, outline>>,
                      result |-> ContentSkillRun(form, topic, outline, o)]
    /\ UNCHANGED <<baseVars, mapVars, pubVars, svcVars>>

InputNext ==
    \/ run
    \/ OutlineRun
    \/ ContentRun

\* -------------------------------------------- EventBus channel map, threads
MaxMapCalls == 3

\* A lookup that answers with the first channel constructed.
get_channelFirst(chs, cid) == IF chs[cid] = 0 THEN 0 ELSE 1

\* EventBus.get_channel(channel_id): self._channels.get(channel_id).
get_channel(chs, cid) == chs[cid]

IdleThread == [pc |-> "idle", cid |-> None, held |-> 0, fault |-> FALSE]

MapInit ==
    /\ m_channels = [c \in ChanIds |-> 0]
    /\ m_objs = <<>>
    /\ m_thr = [t \in Threads |-> IdleThread]
    /\ m_calls = 0
    /\ m_events = 0
    /\ m_orphaned = {}
    /\ m_seen = {}

\* EventBus.create_channel(channel_id), statement by statement; a lookup of
\* an id that has no entry raises KeyError.
MapCreate(t) ==
    /\ \/ /\ m_thr[t].pc = "idle"
          /\ m_calls < MaxMapCalls
          /\ m_calls' = m_calls + 1
          /\ \E cid \in ChanIds :
               m_thr' = [m_thr EXCEPT ![t] =
                           [pc |-> IF m_channels[cid] = 0 THEN "store" ELSE "return",
                            cid |-> cid, held |-> 0, fault |-> FALSE]]
          /\ UNCHANGED <<m_channels, m_objs>>
       \/ /\ m_thr[t].pc = "store"
          /\ m_objs' = Append(m_objs, SSEChannel(m_thr[t].cid, DefaultMaxSize))
          /\ m_channels' = [m_channels EXCEPT ![m_thr[t].cid] = Len(m_objs) + 1]
          /\ m_thr' = [m_thr EXCEPT ![t].pc = "return"]
          /\ UNCHANGED m_calls
       \/ /\ m_thr[t].pc = "return"
          /\ m_thr' = [m_thr EXCEPT ![t] =
                         [@ EXCEPT !.pc = "idle",
                                   !.held = m_channels[m_thr[t].cid],
                                   !.fault = m_channels[m_thr[t].cid] = 0]]
          /\ UNCHANGED <<m_channels, m_objs, m_calls>>
    /\ UNCHANGED <<m_events, m_orphaned, m_seen>>
    /\ UNCHANGED <<baseVars, txtVars, pubVars, svcVars>>

\* EventBus.close_channel(channel_id), statement by statement.
MapClose(t) ==
    /\ \/ /\ m_thr[t].pc = "idle"
          /\ m_calls < MaxMapCalls
          /\ m_calls' = m_calls + 1
          /\ \E cid \in ChanIds :
               m_thr' = [m_thr EXCEPT ![t] =
                           [@ EXCEPT !.pc = IF m_channels[cid] # 0 THEN "close" ELSE "idle",
                                     !.cid = cid, !.fault = FALSE]]
          /\ UNCHANGED <<m_channels, m_objs>>
       \/ /\ m_thr[t].pc = "close"
          /\ LET o == m_channels[m_thr[t].cid]
             IN IF o = 0
                THEN /\ m_thr' = [m_thr EXCEPT ![t].pc = "idle", ![t].fault = TRUE]
                     /\ UNCHANGED m_objs
                ELSE /\ m_objs' = [m_objs EXCEPT ![o] = close(@)]
                     /\ m_thr' = [m_thr EXCEPT ![t].pc = "del"]
          /\ UNCHANGED <<m_channels, m_calls>>
       \/ /\ m_thr[t].pc = "del"
          /\ m_channels' = [m_channels EXCEPT ![m_thr[t].cid] = 0]
          /\ m_thr' = [m_thr EXCEPT ![t].pc = "idle",
                                    ![t].fault = m_channels[m_thr[t].cid] = 0]
          /\ UNCHANGED <<m_objs, m_calls>>
    /\ UNCHANGED <<m_events, m_orphaned, m_seen>>
    /\ UNCHANGED <<baseVars, txtVars, pubVars, svcVars>>

\* channel.publish(event) on the channel a create_channel call returned.
MapPublish(t) ==
    /\ m_thr[t].pc = "idle"
    /\ m_thr[t].held # 0
    /\ m_events < MaxBusEvents
    /\ LET o == m_thr[t].held
           ev == m_events + 1
       IN /\ m_events' = ev
          /\ m_objs' = [m_objs EXCEPT ![o] = publish(@, ev).ch]
          /\ m_orphaned' = IF \A c \in ChanIds : m_channels[c] # o
                           THEN m_orphaned \cup {ev} ELSE m_orphaned
    /\ UNCHANGED <<m_channels, m_thr, m_calls, m_seen>>
    /\ UNCHANGED <<baseVars, txtVars, pubVars, svcVars>>

\* bus.get_channel(channel_id).get_events() by a consumer.
MapGetEvents ==
    /\ \E cid \in ChanIds :
         LET o == get_channel(m_channels, cid)
         IN /\ o # 0
            /\ m_objs[o].queue # <<>>
            /\ m_seen' = m_seen \cup {m_objs[o].queue[k] : k \in 1..Len(m_objs[o].queue)}
            /\ m_objs' = [m_objs EXCEPT ![o].queue = <<>>]
    /\ UNCHANGED <<m_channels, m_thr, m_calls, m_events, m_orphaned>>
    /\ UNCHANGED <<baseVars, txtVars, pubVars, svcVars>>

MapNext ==
    \/ \E t \in Threads : MapCreate(t) \/ MapClose(t) \/ MapPublish(t)
    \/ MapGetEvents

\* ------------------------------ run_stream with retry_single_image between
\* A caller resumes the generator of a batch run yield by yield; between
\* two resumptions retry_single_image is called on the same skill object.
MidNext ==
    \/ GenStart
    \/ GenCover
    \/ GenCoverWait
    \/ GenBatchStart
    \/ GenSeqNext
    \/ GenSeqCall
    \/ ConcSubmit
    \/ WorkerStart
    \/ WorkerEnd
    \/ ConcCollect
    \/ ConcResume
    \/ GenReturn
    \/ GenExhausted
    \/ retry_single_image

\* ----------------------------------------- SSEChannel.publish by threads
InQueue(q, ev) == \E k \in 1..Len(q) : q[k] = ev

\* A channel of one of the given capacities, open and empty.
PubInit(caps) ==
    /\ \E c \in caps : p_chan = SSEChannel("a", c)
    /\ p_thr = [t \in Threads |-> [pc |-> "idle", ev |-> 0, full |-> FALSE]]
    /\ p_next = 0
    /\ p_done = {}
    /\ p_delivered = <<>>

\* SSEChannel.publish(event) of thread t: the read of self._closed,
\* self._queue.full(), get_nowait() with except Empty: pass,
\* put_nowait(event) with except Exception: return False. Each Queue
\* method is atomic, their sequence is not.
ThreadPublish(t) ==
    /\ \/ /\ p_thr[t].pc = "idle"
          /\ p_next < MaxPublishes
          /\ p_next' = p_next + 1
          /\ IF p_chan.closed
             THEN /\ p_done' = p_done \cup {[ev |-> p_next + 1, open |-> FALSE,
                                             ret |-> FALSE, present |-> FALSE]}
                  /\ UNCHANGED p_thr
             ELSE /\ p_thr' = [p_thr EXCEPT ![t] =
                                 [pc |-> "full", ev |-> p_next + 1, full |-> FALSE]]
                  /\ UNCHANGED p_done
          /\ UNCHANGED p_chan
       \/ /\ p_thr[t].pc = "full"
          /\ p_thr' = [p_thr EXCEPT ![t].pc = IF QueueFull(p_chan.queue, p_chan.maxsize)
                                              THEN "get" ELSE "put",
                                    ![t].full = QueueFull(p_chan.queue, p_chan.maxsize)]
          /\ UNCHANGED <<p_chan, p_next, p_done>>
       \/ /\ p_thr[t].pc = "get"
          /\ p_chan' = [p_chan EXCEPT !.queue = get_nowait(@).rest]
          /\ p_thr' = [p_thr EXCEPT ![t].pc = "put"]
          /\ UNCHANGED <<p_next, p_done>>
       \/ /\ p_thr[t].pc = "put"
          /\ LET p == put_nowait(p_chan.queue, p_chan.maxsize, p_thr[t].ev)
             IN /\ p_chan' = [p_chan EXCEPT !.queue = p.queue]
                /\ p_done' = p_done \cup {[ev |-> p_thr[t].ev, open |-> TRUE,
                                           ret |-> ~p.full,
                                           present |-> InQueue(p.queue, p_thr[t].ev)]}
          /\ p_thr' = [p_thr EXCEPT ![t].pc = "idle"]
          /\ UNCHANGED p_next
    /\ UNCHANGED p_delivered
    /\ UNCHANGED <<baseVars, txtVars, mapVars, svcVars>>

\* get_events() by the consumer thread: one self._queue.get(timeout) of its
\* loop; the event is appended to the list the call returns.
PubConsume ==
    /\ p_chan.queue # <<>>
    /\ p_delivered' = Append(p_delivered, get_nowait(p_chan.queue).item)
    /\ p_chan' = [p_chan EXCEPT !.queue = get_nowait(@).rest]
    /\ UNCHANGED <<p_thr, p_next, p_done>>
    /\ UNCHANGED <<baseVars, txtVars, mapVars, svcVars>>

\* channel.close().
PubClose ==
    /\ ~p_chan.closed
    /\ p_chan' = close(p_chan)
    /\ UNCHANGED <<p_thr, p_next, p_done, p_delivered>>
    /\ UNCHANGED <<baseVars, txtVars, mapVars, svcVars>>

\* One producer thread, the consumer, and close.
FlowNext ==
    \/ ThreadPublish(1)
    \/ PubConsume
    \/ PubClose

PubNext ==
    \/ \E t \in Threads : ThreadPublish(t)
    \/ PubConsume

\* ------------------------------------------------------ PipelineService
MaxServiceRuns == 2

\* The keys of PIPELINE_TYPES.
PIPELINE_TYPES == {"redbook", "concept"}

\* A run ends with every skill successful, or with a skill that failed.
StreamOutcomes == {"success", "failed"}

\* The event names of pipeline.run_stream with one skill, by pipeline class
\* and outcome: RedBookPipeline ends every path with finish, after error
\* when a skill failed; ConceptPipeline ends with complete, or with
\* step_error and error.
run_stream(ptype, outcome) ==
    IF ptype = "redbook"
    THEN IF outcome = "success"
         THEN <<"start", "step_start", "step_complete", "finish">>
         ELSE <<"start", "step_start", "error", "finish">>
    ELSE IF outcome = "success"
         THEN <<"start", "step_start", "step_complete", "complete">>
         ELSE <<"start", "step_start", "step_error", "error">>

\* The pipeline's status once its last event has been produced.
FinalStatus(outcome) == IF outcome = "success" THEN "success" ELSE "failed"

NoStream == [ptype |-> "none", outcome |-> "none", relayed |-> <<>>, run_id |-> 0,
             status |-> "idle", pc |-> "new"]

NoCancel == [run_id |-> 0, ret |-> FALSE]

SvcInit ==
    /\ active_pipelines = {}
    /\ s_runs = [r \in 1..MaxServiceRuns |-> NoStream]
    /\ s_cancel = NoCancel

\* run_pipeline_stream called and resumed for the first time: the pipeline
\* is created, its start event carries the run id in its metadata, the
\* pipeline is registered under it and the event is relayed.
run_pipeline_stream(r) ==
    /\ s_runs[r].pc = "new"
    /\ \A q \in 1..(r - 1) : s_runs[q].pc # "new"
    /\ \E ptype \in PIPELINE_TYPES, outcome \in StreamOutcomes :
         s_runs' = [s_runs EXCEPT ![r] =
                      [ptype |-> ptype, outcome |-> outcome,
                       relayed |-> <<run_stream(ptype, outcome)[1]>>,
                       run_id |-> r, status |-> "running", pc |-> "yielded"]]
    /\ active_pipelines' = active_pipelines \cup {r}
    /\ UNCHANGED s_cancel
    /\ UNCHANGED <<baseVars, txtVars, mapVars, pubVars>>

\* The consumer resumes the generator: the code after the yield pops the
\* run id when the event just relayed was finish; then the next event of
\* the pipeline is relayed, or the pipeline's stream has ended and so does
\* this one.
ServiceResume(r) ==
    /\ s_runs[r].pc = "yielded"
    /\ LET cur == s_runs[r]
           stream == run_stream(cur.ptype, cur.outcome)
           k == Len(cur.relayed)
       IN /\ active_pipelines' =
                 (IF cur.relayed[k] = "finish" /\ cur.run_id # 0
                  THEN active_pipelines \ {cur.run_id}
                  ELSE active_pipelines)
          /\ IF k < Len(stream)
             THEN s_runs' = [s_runs EXCEPT
                     ![r].relayed = Append(cur.relayed, stream[k + 1]),
                     ![r].status = (IF k + 1 = Len(stream)
                                    THEN FinalStatus(cur.outcome) ELSE cur.status)]
             ELSE s_runs' = [s_runs EXCEPT ![r].pc = "exhausted"]
    /\ UNCHANGED s_cancel
    /\ UNCHANGED <<baseVars, txtVars, mapVars, pubVars>>

\* cancel_pipeline(run_id): pipeline.cancel() of the registered pipeline,
\* which succeeds only while its status is RUNNING; False without an entry.
cancel_pipeline(run_id) ==
    /\ s_runs[run_id].pc # "new"
    /\ IF run_id \in active_pipelines /\ s_runs[run_id].status = "running"
       THEN /\ s_runs' = [s_runs EXCEPT ![run_id].status = "cancelled"]
            /\ s_cancel' = [run_id |-> run_id, ret |-> TRUE]
       ELSE /\ s_cancel' = [run_id |-> run_id, ret |-> FALSE]
            /\ UNCHANGED s_runs
    /\ UNCHANGED active_pipelines
    /\ UNCHANGED <<baseVars, txtVars, mapVars, pubVars>>

SvcNext ==
    \E r \in 1..MaxServiceRuns :
        run_pipeline_stream(r) \/ ServiceResume(r) \/ cancel_pipeline(r)

ExtParked == TxtParked /\ MapInit /\ PubInit({1}) /\ SvcInit

\* ------------------------------------------------------- specifications
\* The parts a specification does not exercise stay in one fixed state.
PipeParked ==
    /\ kind = "base" /\ total_skills = 0 /\ skip_content = FALSE /\ skip_images = FALSE
    /\ pc = "idle" /\ status = "idle" /\ current_step = 0 /\ events = <<>>
    /\ calls = <<>> /\ skill_status = [i \in SkillSlots |-> "pending"]
    /\ img_pulled = 0 /\ img_finished = FALSE /\ img_success = "none"
    /\ stage = 0 /\ cancels = 0 /\ cancel_ret = "none" /\ faulted = 0
    /\ context = NoContext /\ run_ids = <<>>
    /\ h_raising = {} /\ received = [h \in PipelineHandlers |-> <<>>]

ChanParked ==
    /\ chan = SSEChannel("a", 1) /\ ch_next = 0 /\ ch_since = <<>> /\ ch_last = NoOp

EmParked ==
    /\ em_handlers = [ty \in EventTypes |-> <<>>] /\ em_wildcard = <<>>
    /\ em_raising = {} /\ em_last = NoEmit

ImgParked ==
    /\ high_concurrency = FALSE /\ request_delay = 0 /\ max_concurrent = 1
    /\ task_states = [t \in TaskIds |-> <<>>] /\ current_task_id = "NONE"
    /\ GenParked /\ CallsParked

InitPipe == PipeInit /\ ChanParked /\ BusInit /\ concurrent = FALSE /\ EmParked /\ ImgParked /\ ConParked /\ ExtParked
InitChan == PipeParked /\ ChanInit /\ BusInit /\ concurrent = FALSE /\ EmParked /\ ImgParked /\ ConParked /\ ExtParked
InitBus == PipeParked /\ ChanParked /\ BusInit /\ concurrent = TRUE /\ EmParked /\ ImgParked /\ ConParked /\ ExtParked
InitBusSeq == PipeParked /\ ChanParked /\ BusInit /\ concurrent = FALSE /\ EmParked /\ ImgParked /\ ConParked /\ ExtParked
InitEmit == PipeParked /\ ChanParked /\ BusInit /\ concurrent = FALSE /\ EmInit /\ ImgParked /\ ConParked /\ ExtParked
InitImg == PipeParked /\ ChanParked /\ BusInit /\ concurrent = FALSE /\ EmParked /\ ImgInit /\ ConParked /\ ExtParked
InitRetry == PipeParked /\ ChanParked /\ BusInit /\ concurrent = FALSE /\ EmParked /\ RetryInit /\ ConParked /\ ExtParked
InitCleanup == PipeParked /\ ChanParked /\ BusInit /\ concurrent = FALSE /\ EmParked /\ CleanupInit /\ ConParked /\ ExtParked
InitConcept == PipeParked /\ ChanParked /\ BusInit /\ concurrent = FALSE /\ EmParked /\ ImgParked /\ ConInit /\ ExtParked

SpecPipe == InitPipe /\ [][PipeNext]_vars
SpecChan == InitChan /\ [][ChanNext]_vars
SpecBus == InitBus /\ [][BusNext]_vars
SpecBusSeq == InitBusSeq /\ [][BusNext]_vars
SpecEmit == InitEmit /\ [][EmNext]_vars
SpecImg == InitImg /\ [][ImgNext]_vars
SpecRetry == InitRetry /\ [][RetryNext]_vars
SpecCleanup == InitCleanup /\ [][CleanupNext]_vars
SpecConcept == InitConcept /\ [][ConNext]_vars

InitInput == PipeParked /\ ChanParked /\ BusInit /\ concurrent = FALSE /\ EmParked /\ RetryInit /\ ConParked /\ ExtParked
SpecInput == InitInput /\ [][InputNext]_vars
InitMap == PipeParked /\ ChanParked /\ BusInit /\ concurrent = TRUE /\ EmParked /\ ImgParked /\ ConParked /\ ExtParked
SpecMap == InitMap /\ [][MapNext]_vars
InitMid == PipeParked /\ ChanParked /\ BusInit /\ concurrent = FALSE /\ EmParked /\ ImgInit /\ ConParked /\ ExtParked
SpecMid == InitMid /\ [][MidNext]_vars
InitPub == PipeParked /\ ChanParked /\ BusInit /\ concurrent = TRUE /\ EmParked /\ ImgParked /\ ConParked /\ TxtParked /\ MapInit /\ PubInit(1..MaxCap) /\ SvcInit
SpecPub == InitPub /\ [][PubNext]_vars
InitFlow == PipeParked /\ ChanParked /\ BusInit /\ concurrent = TRUE /\ EmParked /\ ImgParked /\ ConParked /\ TxtParked /\ MapInit /\ PubInit(1..MaxCap) /\ SvcInit
SpecFlow == InitFlow /\ [][FlowNext]_vars
InitService == PipeParked /\ ChanParked /\ BusInit /\ concurrent = FALSE /\ EmParked /\ ImgParked /\ ConParked /\ ExtParked
SpecService == InitService /\ [][SvcNext]_vars

\* ------------------------------------------------------ pipeline claims
IsPrefix(a, b) == Len(a) <= Len(b) /\ SubSeq(b, 1, Len(a)) = a

\* The call returned a result with success = true and nothing raised.
CallSucceeded(c) == c.result.success /\ ~c.esc /\ ~c.result.propagated

\* The call returned a result with success = false.
CallFailed(c) == ~c.result.success /\ ~c.esc /\ ~c.result.propagated

\* start, (progress i, step_complete i) for i = 1..n, finish(success=true).
ExpectedSuccessRun(n) ==
    [j \in 1..(2 * n + 2) |->
        IF j = 1 THEN PipelineEvent("start", 0, "none")
        ELSE IF j = 2 * n + 2 THEN PipelineEvent("finish", 0, "true")
        ELSE IF j % 2 = 0 THEN PipelineEvent("progress", j \div 2, "none")
        ELSE PipelineEvent("step_complete", j \div 2, "none")]

\* start, (progress, step_complete) for 1..k-1, progress k, error k, finish(false).
ExpectedFailedRun(k) ==
    [j \in 1..(2 * k + 2) |->
        IF j = 1 THEN PipelineEvent("start", 0, "none")
        ELSE IF j = 2 * k + 2 THEN PipelineEvent("finish", 0, "false")
        ELSE IF j = 2 * k + 1 THEN PipelineEvent("error", k, "none")
        ELSE IF j % 2 = 0 THEN PipelineEvent("progress", j \div 2, "none")
        ELSE PipelineEvent("step_complete", j \div 2, "none")]

\* C1: a base pipeline with N >= 1 skills whose execute calls all succeed
\* yields start, (progress i, step_complete i) for i = 1..N, finish(true):
\* every event sequence on the way is a prefix of it, and the exhausted
\* generator has yielded exactly it, after exactly N calls.
C1_AllSuccessSequence ==
    (kind = "base" /\ total_skills >= 1 /\ pc # "idle"
       /\ \A i \in 1..Len(calls) : CallSucceeded(calls[i]))
    => /\ IsPrefix(events, ExpectedSuccessRun(total_skills))
       /\ pc = "done" => /\ events = ExpectedSuccessRun(total_skills)
                         /\ Len(calls) = total_skills

C1_Witness ==
    /\ kind = "base" /\ pc = "done" /\ total_skills >= 2
    /\ Len(calls) = total_skills
    /\ \A i \in 1..Len(calls) : CallSucceeded(calls[i])

\* The events of a run whose last call is the first unsuccessful one.
C2_FirstFailureSequence ==
    (kind = "base" /\ Len(calls) >= 1 /\ CallFailed(calls[Len(calls)])
       /\ \A i \in 1..(Len(calls) - 1) : CallSucceeded(calls[i]))
    => /\ IsPrefix(events, ExpectedFailedRun(Len(calls)))
       /\ calls[Len(calls)].step = Len(calls)
       /\ pc = "done" => events = ExpectedFailedRun(Len(calls))

\* No call is made after a call whose result was not successful.
C2_NoCallAfterFailure ==
    kind = "base" => \A i \in 1..(Len(calls) - 1) : CallSucceeded(calls[i])

\* C2: when skill k is the first whose result has success = false, a base
\* pipeline yields start, (progress, step_complete) for 1..k-1, progress(k),
\* error(k), finish(false), and no skill after k is executed.
C2_FailureStops == C2_FirstFailureSequence /\ C2_NoCallAfterFailure

C2_Witness ==
    /\ kind = "base" /\ pc = "done" /\ total_skills = 3 /\ Len(calls) = 2
    /\ CallSucceeded(calls[1]) /\ CallFailed(calls[2])

\* C3: run_stream never raises to its caller: a fault that leaves a skill
\* call or another statement of the loop, at whatever step, sets the status
\* to failed and is followed by error, then finish(success=false), and then
\* the end of the sequence; this for the base pipeline and for RedBook.
C3_NeverRaises ==
    /\ pc # "raised"
    /\ faulted # 0 =>
         /\ status = "failed"
         /\ pc \in {"after_exc_error", "after_finish", "done"}
         /\ pc = "after_exc_error" => events[Len(events)].event = "error"
         /\ pc \in {"after_finish", "done"} =>
              /\ Len(events) >= 2
              /\ events[Len(events) - 1].event = "error"
              /\ events[Len(events)] = PipelineEvent("finish", 0, "false")

C3_Witness == pc = "done" /\ faulted >= 2 /\ Len(events) >= 5

\* C4: Skill.execute never propagates a fault: when pre_run, run or post_run
\* raises, or run returns something that is no result, the call returns a
\* result with success = false whose error is the message of the fault.
C4_ExecuteNeverPropagates ==
    \A i \in 1..Len(calls) :
       LET c == calls[i]
           faulty == c.pre = "raise" \/ c.run \in {"raise", "nonresult"} \/ c.post = "raise"
       IN /\ ~c.result.propagated
          /\ faulty => /\ ~c.result.success
                       /\ c.result.error = FaultMessage(c.pre, c.run, c.post)
                       /\ c.result.error # "none"
                       /\ skill_status[c.step] = "failed"

C4_Witness ==
    /\ Len(calls) >= 1
    /\ calls[1].pre = "ok" /\ calls[1].run = "nonresult" /\ calls[1].post = "ok"
    /\ ~calls[1].result.success

\* ------------------------------------------------------- channel claims
\* C5: whatever publish and get_events calls are made on a channel of
\* capacity C, the number of buffered events never exceeds C.
C5_QueueBounded == Len(chan.queue) <= chan.max_size

C5_Witness ==
    /\ ch_last.op = "publish" /\ ch_last.ret
    /\ Len(ch_last.before) = chan.max_size
    /\ Len(chan.queue) = chan.max_size

\* C6: on an open channel of capacity C, get_events after k publishes with
\* no drain in between returns the last min(k, C) published events in
\* publish order (after C+1 publishes: all but the first).
C6_DrainReturnsLastC ==
    (ch_last.op = "get_events" /\ ch_last.open)
    => ch_last.got = LastN(ch_last.since, Min(Len(ch_last.since), chan.max_size))

C6_Witness ==
    /\ ch_last.op = "get_events" /\ ch_last.open
    /\ chan.max_size >= 2
    /\ Len(ch_last.since) = chan.max_size + 1
    /\ ch_last.got = Tail(ch_last.since)

\* C7: publish on an open channel returns True and leaves the new event as
\* the newest buffered element; on a full queue exactly the oldest element
\* is removed first and the others stay in place and in order, otherwise
\* nothing is removed.
C7_PublishEvictsOldest ==
    (ch_last.op = "publish" /\ ch_last.open)
    => /\ ch_last.ret
       /\ chan.queue # <<>>
       /\ chan.queue[Len(chan.queue)] = ch_last.ev
       /\ SubSeq(chan.queue, 1, Len(chan.queue) - 1) =
             (IF Len(ch_last.before) >= chan.max_size
              THEN SubSeq(ch_last.before, 2, Len(ch_last.before))
              ELSE ch_last.before)

C7_Witness ==
    /\ ch_last.op = "publish" /\ ch_last.open /\ ch_last.ret
    /\ chan.max_size >= 2
    /\ Len(ch_last.before) = chan.max_size
    /\ chan.queue = Append(Tail(ch_last.before), ch_last.ev)

\* ----------------------------------------------------------- bus claims
\* Handlers held by the current emitter.
CurrentHandlers ==
    {wildcard[i] : i \in 1..Len(wildcard)}
      \cup UNION {{handlers[ty][i] : i \in 1..Len(handlers[ty])} : ty \in EventTypes}

\* Channel ids registered in the current bus._channels.
RegisteredIds == {c \in ChanIds : channels[c] # <<>>}

\* C8: calls of get_event_bus() that do not overlap, with any operations in
\* between, all return the same EventBus with the same emitter, and what was
\* registered through an earlier call (handlers, channels) is still there.
C8_SameBusSameEmitter ==
    /\ \A t \in Threads : ret[t] # 0 => /\ ret[t] = first_ret
                                       /\ ret_emitter[t] = first_emitter
    /\ calls_done >= 1 => /\ cls_instance = first_ret
                          /\ emitter = first_emitter
                          /\ emitter_installs = 1
                          /\ registry_installs = 1
    /\ reg_handlers \subseteq CurrentHandlers
    /\ reg_channels = RegisteredIds

C8_Witness ==
    /\ calls_done >= 2
    /\ \A t \in Threads : tpc[t] = "idle"
    /\ reg_handlers # {} /\ reg_channels # {}
    /\ reg_handlers \subseteq CurrentHandlers

\* C9: under concurrent first use exactly one emitter and one channel
\* registry are ever installed, and no handler or channel registered
\* through a returned bus is lost to another thread's construction.
C9_CreatedOnceConcurrently ==
    /\ emitter_installs <= 1
    /\ registry_installs <= 1
    /\ reg_handlers \subseteq CurrentHandlers
    /\ reg_channels \subseteq RegisteredIds

\* C10 as stated: publish always invokes the emitter's handlers, and it
\* enqueues the event iff a channel id is supplied and a channel is
\* registered under it; otherwise no queue changes.
C10_EnqueuesIffRegistered ==
    last_pub.n > 0 =>
      /\ last_pub.invoked = last_pub.h_type \o last_pub.h_wild
      /\ (last_pub.enqueued # {}) <=> (last_pub.cid # None /\ last_pub.registered)
      /\ ~(last_pub.cid # None /\ last_pub.registered) => last_pub.changed = {}

\* C10 amended: publish always invokes the emitter's handlers (those of the
\* event's type, then the wildcard ones); it enqueues the event iff the
\* channel id is a non-empty string, a channel is registered under it and
\* that channel is open, then in that channel only; in every other case no
\* channel's queue changes.
C10_EnqueuesIffRegisteredOpen ==
    last_pub.n > 0 =>
      IF Truthy(last_pub.cid) /\ last_pub.registered /\ last_pub.open
      THEN /\ last_pub.invoked = last_pub.h_type \o last_pub.h_wild
           /\ last_pub.enqueued = {last_pub.cid}
           /\ last_pub.changed = {last_pub.cid}
      ELSE /\ last_pub.invoked = last_pub.h_type \o last_pub.h_wild
           /\ last_pub.enqueued = {}
           /\ last_pub.changed = {}

C10_Witness ==
    /\ last_pub.n > 0
    /\ last_pub.cid = "a" /\ last_pub.registered /\ last_pub.open
    /\ last_pub.enqueued = {"a"}
    /\ last_pub.invoked # <<>>

\* -------------------------------------------------------- emitter claims
\* C11: emit calls every handler registered for the event's type, in
\* registration order, and then every wildcard handler, each registration
\* exactly once, and returns normally whichever of them raise.
C11_EmitCallsAll ==
    em_last.type # "none" =>
        /\ em_last.called = em_last.h_type \o em_last.h_wild
        /\ ~em_last.escaped

\* An emit with a raising handler ahead of another handler of the type and
\* ahead of a wildcard handler.
C11_Witness ==
    /\ em_last.type # "none"
    /\ Len(em_last.h_type) >= 2
    /\ em_last.h_type[1] \in em_last.raising
    /\ Len(em_last.h_wild) >= 1
    /\ Len(em_last.called) >= 3

\* ------------------------------------------------------ scheduler claims
CoverTagged == {i \in 1..Len(g_pages) : g_pages[i] = "cover"}

\* Positions of the log at which a generator call starts / ends.
Starts == {k \in 1..Len(g_log) : g_log[k].at = "start"}
Ends == {k \in 1..Len(g_log) : g_log[k].at = "end"}

\* C12: the reference task of a batch run is a page tagged cover if the list
\* has one and the first page otherwise; its generator call gets no
\* reference image and has returned before the call of any other page starts.
C12_ReferenceFirstAndAlone ==
    g_pc \notin {"none", "at_input_error", "done"} \/ (g_pc = "done" /\ g_pages # <<>>) =>
        /\ IF CoverTagged # {} THEN g_cover \in CoverTagged ELSE g_cover = 1
        /\ \A k \in Starts :
             IF g_log[k].index = g_cover
             THEN k = 1 /\ g_log[k].ref = NoImage
             ELSE /\ 2 \in Ends
                  /\ g_log[2].index = g_cover
                  /\ k > 2

\* A finished concurrent run of a list whose cover is not its first page.
C12_Witness ==
    /\ g_pc = "at_finish"
    /\ high_concurrency
    /\ Len(g_pages) = 3
    /\ g_pages[1] = "content" /\ g_pages[2] = "cover"
    /\ Cardinality(Starts) = 3

\* Whether the reference call of the run has returned, and how.
CoverReturned == 2 \in Ends /\ g_log[2].index = g_cover
CoverSucceeded == CoverReturned /\ g_log[2].ok
CoverFailed == CoverReturned /\ ~g_log[2].ok
Attempted == {g_log[k].index : k \in Starts}
RunOver == g_pc \in {"at_finish", "done"} /\ g_pages # <<>>

\* C13: if the reference call succeeded, every later generator call of the
\* run gets the compressed reference image; if it failed, every other task
\* of the list is still attempted and gets no reference image.
C13_ReferencePropagated ==
    /\ \A k \in Starts :
         g_log[k].index # g_cover =>
            g_log[k].ref = IF CoverSucceeded
                           THEN compress_image(ImageBytes(g_task, g_cover))
                           ELSE NoImage
    /\ RunOver /\ CoverFailed => Attempted = 1..Len(g_pages)

\* The notifications that tell the outcome of page i.
OutcomesOf(i) ==
    {k \in 1..Len(g_events) : g_events[k].event \in {"complete", "error"}
                              /\ g_events[k].index = i}
LastEvent == g_events[Len(g_events)]

\* C14: when a batch run of N pages is over, every page has had exactly one
\* outcome (complete or error) whatever calls failed, and the finish
\* notification has completed + failed = total = N.
C14_OneOutcomePerTask ==
    RunOver =>
        /\ \A i \in 1..Len(g_pages) : Cardinality(OutcomesOf(i)) = 1
        /\ LastEvent.total = Len(g_pages)
        /\ LastEvent.completed + LastEvent.failed = LastEvent.total

\* --------------------------------------------------- run / retry claims
\* The calls the last run made for page i.
RunCallsFor(i) ==
    {k \in 1..Len(last_run.calls) : last_run.calls[k].at = "start"
                                    /\ last_run.calls[k].index = i}
RunFailedAt(i) ==
    \E k \in 1..Len(last_run.calls) :
        /\ last_run.calls[k].at = "end"
        /\ last_run.calls[k].index = i
        /\ ~last_run.calls[k].ok

\* Index i of task t is recorded as failed and not as generated.
RecordedFailed(t, i) ==
    /\ task_states[t] # <<>>
    /\ i \in task_states[t][1].failed
    /\ i \notin task_states[t][1].generated

RetriedOk(t, i) ==
    /\ g_retries' = g_retries + 1
    /\ last_retry'.task = t /\ last_retry'.index = i /\ last_retry'.success

NewRunOf(t) == last_run' # last_run /\ last_run'.task = t

C15_AtMostOneCall == \A i \in PageIndices : Cardinality(RunCallsFor(i)) <= 1

C15_StaysFailed ==
    \A t \in TaskIds, i \in PageIndices :
        RecordedFailed(t, i) => RecordedFailed(t, i)' \/ RetriedOk(t, i) \/ NewRunOf(t)

\* C15: a batch run calls the generator at most once per page, and a page
\* recorded as failed stays in the failure map and out of the success map
\* until a retry_single_image call for that index succeeds.
C15_NoAutomaticRetry == []C15_AtMostOneCall /\ [][C15_StaysFailed]_vars

\* A page that failed in the run and is still recorded as failed after a
\* retry of it has failed too.
C15_Witness ==
    /\ last_run.finished
    /\ last_retry.task = last_run.task
    /\ ~last_retry.success
    /\ RunFailedAt(last_retry.index)
    /\ RecordedFailed(last_run.task, last_retry.index)
    /\ Len(last_run.pages) = 3

\* Indices whose generator call returned with / without success in the run.
Succeeded == {g_log[k].index : k \in {e \in Ends : g_log[e].ok}}
Failing == {g_log[k].index : k \in {e \in Ends : ~g_log[e].ok}}
SeqToSet(sq) == {sq[k] : k \in 1..Len(sq)}

\* C16: the finish result has success = true exactly when no call failed,
\* completed and failed count the calls that succeeded and failed,
\* failed_indices holds exactly the failed indices, and the task state
\* stores the succeeded indices as generated.
C16_AggregateResult ==
    RunOver =>
        /\ LastEvent.event = "finish"
        /\ LastEvent.success = (Failing = {})
        /\ LastEvent.completed = Cardinality(Succeeded)
        /\ LastEvent.failed = Cardinality(Failing)
        /\ SeqToSet(LastEvent.failed_indices) = Failing
        /\ Len(LastEvent.failed_indices) = Cardinality(Failing)
        /\ task_states[g_task][1].generated = Succeeded
        /\ task_states[g_task][1].failed = Failing

\* A finished run of three pages in which exactly the second call failed.
C16_Witness ==
    /\ RunOver
    /\ Len(g_pages) = 3
    /\ Cardinality(Succeeded) = 2
    /\ Failing = {2}
    /\ ~LastEvent.success
    /\ LastEvent.failed_indices = <<2>>

\* The step is a retry_single_image call that succeeded on an index
\* recorded as failed in a known task state.
RetrySucceededOnFailed ==
    /\ g_retries' = g_retries + 1
    /\ last_retry'.success
    /\ task_states[last_retry'.task] # <<>>
    /\ last_retry'.index \in task_states[last_retry'.task][1].failed

C17_RetryMovesOne ==
    RetrySucceededOnFailed =>
        LET t == last_retry'.task
            i == last_retry'.index
            old == task_states[t][1]
            new == task_states'[t][1]
        IN /\ task_states'[t] # <<>>
           /\ i \in new.generated /\ i \notin new.failed
           /\ new.generated \ {i} = old.generated \ {i}
           /\ new.failed = old.failed \ {i}
           /\ new.cover_image = old.cover_image
           /\ new.pages = old.pages
           /\ \A u \in TaskIds \ {t} : task_states'[u] = task_states[u]
           /\ Len(last_retry'.calls) = 2
           /\ last_retry'.calls[1].at = "start" /\ last_retry'.calls[2].at = "end"
           /\ \A k \in 1..2 : last_retry'.calls[k].index = i /\ last_retry'.calls[k].task = t
           /\ last_run' = last_run

\* C17: a successful retry_single_image on a failed index moves that index
\* from the failure map to the success map of its task state, makes exactly
\* one generator call, for that index, and changes no other index, not the
\* kept cover image and no other task's state.
C17_RetryFrame == [][C17_RetryMovesOne]_vars

\* After a run in which a page failed, a retry of that page succeeded while
\* the other task has a state of its own and another page of the run is
\* still recorded as failed.
C17_Witness ==
    /\ last_run.finished
    /\ last_retry.success
    /\ last_retry.task = last_run.task
    /\ RunFailedAt(last_retry.index)
    /\ last_retry.index \in task_states[last_run.task][1].generated
    /\ last_retry.index \notin task_states[last_run.task][1].failed
    /\ task_states[last_run.task][1].failed # {}
    /\ \A u \in TaskIds : task_states[u] # <<>>

\* The run is sequential with delay 0, is over, and every call succeeded.
PlainRunOver == RunOver /\ ~high_concurrency /\ request_delay = 0 /\ Failing = {}

\* A notification reduced to its event, status and index.
Shape(e) == <<e.event, e.status, e.index>>
Shapes == [k \in 1..Len(g_events) |-> Shape(g_events[k])]

RECURSIVE ProgressComplete(_)
ProgressComplete(indices) ==
    IF indices = <<>> THEN <<>>
    ELSE <<<<"progress", "generating", Head(indices)>>, <<"complete", "done", Head(indices)>>>>
         \o ProgressComplete(Tail(indices))

\* The pages of the list other than the reference, in list order.
RECURSIVE Remaining(_)
Remaining(from) ==
    IF from > Len(g_pages) THEN <<>>
    ELSE IF from = g_cover THEN Remaining(from + 1)
    ELSE <<from>> \o Remaining(from + 1)

\* The pages the second phase is given: those not tagged cover, or all but
\* the first when no page is tagged.
Scheduled ==
    IF CoverTagged # {} THEN NonCover(g_pages, 1)
    ELSE [k \in 1..(Len(g_pages) - 1) |-> k + 1]

\* C18 as stated: in sequential mode with delay 0 and a generator that
\* always succeeds, a batch of N tasks yields start(total=N),
\* progress(reference), complete(reference), progress(batch_start), then
\* progress(t), complete(t) for each remaining task t in list order, then
\* finish(success=true, completed=N, failed=0).
C18_OrderWithStart ==
    PlainRunOver =>
        /\ Shapes = <<<<"start", "none", 0>>>>
                    \o ProgressComplete(<<g_cover>>)
                    \o <<<<"progress", "batch_start", 0>>>>
                    \o ProgressComplete(Remaining(1))
                    \o <<<<"finish", "none", 0>>>>
        /\ g_events[1].total = Len(g_pages)
        /\ LastEvent.success /\ LastEvent.completed = Len(g_pages) /\ LastEvent.failed = 0

\* C18 amended: the sequence has no start notification; it is
\* progress(reference), complete(reference), then, when the second phase has
\* pages, progress(batch_start) and progress(t), complete(t) for each of
\* them in list order, then finish(success=true, failed=0) with completed
\* the number of pages generated.
C18_OrderNoStart ==
    PlainRunOver =>
        /\ Shapes = ProgressComplete(<<g_cover>>)
                    \o (IF Scheduled = <<>> THEN <<>>
                        ELSE <<<<"progress", "batch_start", 0>>>> \o ProgressComplete(Scheduled))
                    \o <<<<"finish", "none", 0>>>>
        /\ g_events[1].total = Len(g_pages)
        /\ LastEvent.success /\ LastEvent.failed = 0
        /\ LastEvent.completed = 1 + Len(Scheduled)
        /\ Cardinality(CoverTagged) <= 1 => LastEvent.completed = Len(g_pages)

\* A plain run of three pages: nine notifications were claimed, eight came.
C18_Witness ==
    /\ PlainRunOver
    /\ g_pages = <<"cover", "content", "content">>
    /\ Len(g_events) = 8

\* Generator calls that have started and not yet returned.
InFlight == {k \in Starts : \A j \in Ends : j < k \/ g_log[j].index # g_log[k].index}
Submitted == {i \in PageIndices : futures[i] # "none"}

\* C19: in bounded-concurrent mode the number of generator calls in flight
\* never exceeds the configured maximum concurrency, and no call of the
\* second phase is submitted, or started, before the reference call returned.
C19_BoundedPool ==
    high_concurrency =>
        /\ Cardinality(InFlight) <= max_concurrent
        /\ Cardinality(Running) <= max_concurrent
        /\ Submitted # {} => CoverReturned /\ g_cover \notin Submitted
        /\ \A k \in Starts : g_log[k].index # g_cover => CoverReturned /\ k > 2

\* The pool is full and a submitted call is waiting for a worker.
C19_Witness ==
    /\ high_concurrency
    /\ Cardinality(InFlight) = max_concurrent
    /\ Queued # {}

FinishAt == {k \in 1..Len(g_events) : g_events[k].event = "finish"}
Exhausted == g_pc = "done"
YieldsNothingMore == Exhausted => g_events' = g_events

\* One finish notification, the last element, once the sequence is exhausted.
EndsWithOneFinish ==
    Exhausted => FinishAt = {Len(g_events)} /\ g_events # <<>>

\* C20 as stated: for every finite task list the notification sequence of
\* run_stream is finite and ends with exactly one finish notification, its
\* last element; once exhausted the sequence produces nothing more.
C20_AlwaysEndsWithFinish == []EndsWithOneFinish /\ [][YieldsNothingMore]_vars

\* The sequence is never longer than three notifications per page and three
\* more, a finish notification is never followed by another notification,
\* a non-empty list ends with its one finish and an empty list yields the
\* error notification alone.
FiniteThenFinish ==
    /\ Len(g_events) <= 3 * Len(g_pages) + 3
    /\ FinishAt \subseteq {Len(g_events)}
    /\ Exhausted /\ g_pages # <<>> => FinishAt = {Len(g_events)}
    /\ Exhausted /\ g_pages = <<>> => g_events = <<InputError>> /\ task_states[g_task] = <<>>

\* C20 amended: for every non-empty finite task list the notification
\* sequence of run_stream is finite and ends with exactly one finish
\* notification, its last element; for the empty list it is the single error
\* notification, without finish; once exhausted it produces nothing more.
C20_EndsWithFinishUnlessEmpty == []FiniteThenFinish /\ [][YieldsNothingMore]_vars

\* A run of a non-empty list was exhausted and then asked for more.
C20_Witness ==
    /\ Exhausted /\ g_extra = 1
    /\ g_pages # <<>> /\ Len(g_events) > 3

\* ------------------------------------------------ cancellation claims
\* A step that is a call of cancel().
IsCancelCall == cancels' = cancels + 1

C21_CancelStep ==
    IsCancelCall =>
        IF status = "running"
        THEN status' = "cancelled" /\ cancel_ret' = "true"
        ELSE status' = status /\ cancel_ret' = "false"

\* C21: cancel() sets the status to cancelled and returns true if and only if
\* the status is running at the call; in every other status it returns false
\* and leaves the status unchanged.
C21_CancelOnlyWhenRunning == [][C21_CancelStep]_vars

\* A first cancel() took a running pipeline to cancelled and a second one,
\* made on the cancelled pipeline, returned false.
C21_Witness ==
    /\ cancels = 2
    /\ status = "cancelled"
    /\ cancel_ret = "false"

\* A fault left the call: the except branch of run_stream handles it.
CallRaised(c) == c.esc \/ c.result.propagated

\* The events that follow from the calls cs[k..]: progress, then
\* step_complete, or error and finish(false). excBase: the except branch
\* names the current step (base pipeline) or no step (RedBook).
RECURSIVE StepEvents(_, _, _)
StepEvents(cs, k, excBase) ==
    IF k > Len(cs) THEN <<>>
    ELSE LET c == cs[k]
         IN <<PipelineEvent("progress", c.step, "none")>>
            \o (IF CallRaised(c)
                THEN <<PipelineEvent("error", IF excBase THEN c.step ELSE 0, "none"),
                       PipelineEvent("finish", 0, "false")>>
                ELSE IF ~c.result.success
                THEN <<PipelineEvent("error", c.step, "none"),
                       PipelineEvent("finish", 0, "false")>>
                ELSE <<PipelineEvent("step_complete", c.step, "none")>>)
            \o StepEvents(cs, k + 1, excBase)

AllSucceeded(cs) == \A i \in 1..Len(cs) : CallSucceeded(cs[i])

\* The whole sequence of a base run as its calls determine it.
BaseRunEvents(cs, total) ==
    <<PipelineEvent("start", 0, "none")>> \o StepEvents(cs, 1, TRUE)
    \o (IF Len(cs) = total /\ AllSucceeded(cs)
        THEN <<PipelineEvent("finish", 0, "true")>> ELSE <<>>)

\* The steps of RedBook that call execute, in order.
RbExecuteSteps == IF skip_content THEN <<1>> ELSE <<1, 2>>

\* Skills are executed in list order, none after an unsuccessful call, and
\* the events are the ones the calls made so far determine.
EventsFollowCalls ==
    /\ \A i \in 1..(Len(calls) - 1) : CallSucceeded(calls[i])
    /\ kind = "base" /\ pc # "idle" =>
         /\ Len(calls) <= total_skills
         /\ \A i \in 1..Len(calls) : calls[i].step = i
         /\ \/ IsPrefix(events, BaseRunEvents(calls, total_skills))
            \/ /\ pc = "after_progress"
               /\ events = Append(BaseRunEvents(calls, total_skills),
                                  PipelineEvent("progress", Len(calls) + 1, "none"))
         /\ pc = "done" =>
              /\ events = BaseRunEvents(calls, total_skills)
              /\ AllSucceeded(calls) => Len(calls) = total_skills
    /\ kind = "redbook" /\ pc # "idle" =>
         LET known == <<PipelineEvent("start", 0, "none")>> \o StepEvents(calls, 1, FALSE)
         IN /\ Len(calls) <= Len(RbExecuteSteps)
            /\ \A i \in 1..Len(calls) : calls[i].step = RbExecuteSteps[i]
            /\ IsPrefix(events, known) \/ IsPrefix(known, events)
            /\ pc = "done" =>
                 /\ events[Len(events)].event = "finish"
                 /\ AllSucceeded(calls) => Len(calls) = Len(RbExecuteSteps)

\* A cancel() call leaves the generator and everything it has produced alone.
CancelLeavesRunAlone ==
    IsCancelCall => UNCHANGED <<pc, events, calls, current_step, stage, skill_status,
                                img_pulled, img_finished, img_success, faulted>>

\* C22: cancellation is advisory: a cancel() issued between two events of a
\* run changes neither which skills are executed nor the events run_stream
\* yields afterwards; with and without cancel() the events and the executed
\* skills are the same function of the results of the calls.
C22_CancelAdvisory == []EventsFollowCalls /\ [][CancelLeavesRunAlone]_vars

\* A run of two or more skills was cancelled on the way, cancel() returned
\* true, and the run still executed every skill and ended with success.
C22_Witness ==
    /\ kind = "base" /\ pc = "done"
    /\ cancels = 1 /\ cancel_ret = "true"
    /\ total_skills >= 2 /\ Len(calls) = total_skills
    /\ events = ExpectedSuccessRun(total_skills)

\* The status changes the claim allows.
StatusMoves == {<<"idle", "running">>, <<"running", "success">>,
                <<"running", "failed">>, <<"running", "cancelled">>}

\* A step that starts a run of the instance.
IsRunStart == Len(run_ids') > Len(run_ids)

C23_StatusStep ==
    status' # status /\ ~(IsRunStart /\ status' = "running")
        => <<status, status'>> \in StatusMoves

\* C23: within one run, cancel() calls at event boundaries included, the
\* status only changes along idle->running, running->success,
\* running->failed and running->cancelled: paused is never entered, and
\* success, failed and cancelled are never left before the sequence ends.
C23_StatusLattice == [](status # "paused") /\ [][C23_StatusStep]_vars

\* ------------------------------------------------------ context claims
\* The run ids of the runs before the current one.
EarlierRunIds == {run_ids[i] : i \in 1..(Len(run_ids) - 1)}

\* C24: every run on a pipeline instance gets a fresh PipelineContext: its
\* run id differs from that of every earlier run, its result mapping starts
\* empty, and no variable or skill result of an earlier run is visible in it.
C24_FreshContext ==
    pc # "idle" =>
        /\ context.run_id = run_ids[Len(run_ids)]
        /\ context.run_id \notin EarlierRunIds
        /\ pc = "after_start" => context.results = {}
        /\ \A v \in context.variables : v[2] = context.run_id
        /\ \A r \in context.results : r[2] = context.run_id
        /\ {r[1] : r \in context.results} \subseteq
              {calls[i].step : i \in 1..Len(calls)} \cup (IF img_finished THEN {3} ELSE {})

\* A second run on an instance whose first run executed skill 2: the
\* context holds the result of the one call of the second run, nothing else.
C24_Witness ==
    /\ kind = "base" /\ Len(run_ids) = 2
    /\ skill_status[2] = "success"
    /\ Len(calls) = 1 /\ CallSucceeded(calls[1])
    /\ context.results = {<<1, context.run_id>>}
    /\ context.variables = {}

\* --------------------------------------------------- synchronous run claims
\* ConceptPipeline.run is over: it returned or raised.
ConRunOver == c_pc \in {"done", "abandoned"}

\* The run ended with the event that reports success.
ConEndedWithSuccess == c_events # <<>> /\ c_events[Len(c_events)].event = "complete"

\* C25: the synchronous run drains the whole event sequence and returns the
\* payload of the final event together with the complete list of events in
\* the order run_stream produced them; its returned success is true exactly
\* when the run ended with success.
C25_RunReturnsFinalPayload ==
    ConRunOver =>
        /\ c_ret.kind = "result"
        /\ c_ret.has_events
        /\ c_ret.success <=> ConEndedWithSuccess

\* ------------------------------------------------------- RedBook claims
\* The RedBook run has yielded its finish event.
RbFinished == kind = "redbook" /\ pc \in {"after_finish", "done"}

\* A step of the run had an unsuccessful result: an execute call, the image
\* stream finishing with success = false, or the image stream ending
\* without a finish event.
RbStepUnsuccessful ==
    \/ \E i \in 1..Len(calls) : CallFailed(calls[i])
    \/ img_success = "false"
    \/ stage = 3 /\ ~img_finished /\ faulted = 0

\* C26: in the RedBook pipeline, whenever a step's result has success =
\* false, the image step finishing with failed items or ending without a
\* result included, the pipeline emits error, sets the status to failed and
\* emits finish(success=false); it never reports finish(success=true) after
\* a step whose result was unsuccessful.
C26_FailureReported ==
    RbFinished /\ RbStepUnsuccessful =>
        /\ status = "failed"
        /\ events[Len(events)] = PipelineEvent("finish", 0, "false")
        /\ \E k \in 1..Len(events) : events[k].event = "error"

\* --------------------------------------------------------- skill claims
\* A step in which a skill's execute is called and returns.
IsExecuteCall == Len(calls') = Len(calls) + 1

C27_StatusStep ==
    IF IsExecuteCall
    THEN LET c == calls'[Len(calls')]
         IN skill_status' = [skill_status EXCEPT
                               ![c.step] = IF c.result.success THEN "success" ELSE "failed"]
    ELSE skill_status' = skill_status

\* No execute call is in progress between two steps of a run, so no status
\* is running there; cancelled is never assigned.
C27_NotRunning == \A s \in SkillSlots : skill_status[s] \in {"pending", "success", "failed"}

\* C27: a skill's status is running only while its own execute call is in
\* progress; when execute returns the status is success if the result has
\* success = true and failed otherwise, and no pipeline operation other
\* than that skill's execute changes it.
C27_StatusFollowsExecute == []C27_NotRunning /\ [][C27_StatusStep]_vars

\* Skill 1 succeeded, skill 2 faulted in run, skill 3 was never executed.
C27_Witness ==
    /\ kind = "base" /\ Len(run_ids) = 1 /\ Len(calls) = 2
    /\ CallSucceeded(calls[1]) /\ calls[2].run = "raise"
    /\ skill_status[1] = "success" /\ skill_status[2] = "failed"
    /\ skill_status[3] = "pending"

\* ---------------------------------------------------- scheduling claims
Sleeps == {k \in 1..Len(g_log) : g_log[k].at = "sleep"}
WaitingAt == {k \in 1..Len(g_events) : g_events[k].status = "waiting"}

\* Two generator calls of the run with no other call started between them.
ConsecutiveStarts ==
    {p \in Starts \X Starts : p[1] < p[2] /\ \A k \in Starts : ~(p[1] < k /\ k < p[2])}

\* C28: in sequential mode with a delay greater than 0, between any two
\* consecutive generator calls of a batch run, the reference call and the
\* first remaining task included, whether the reference succeeded or failed,
\* a waiting notification is emitted and the delay elapses before the next
\* call starts, and at most one generator call is in flight at any time.
C28_DelayBetweenCalls ==
    ~high_concurrency /\ request_delay > 0 =>
        /\ \A p \in ConsecutiveStarts : \E k \in Sleeps : p[1] < k /\ k < p[2]
        /\ Cardinality(WaitingAt) >= Cardinality(Starts) - 1
        /\ Cardinality(InFlight) <= 1

\* The notification that tells the outcome of page i agrees with its call.
OutcomeMatches(i) ==
    \A k \in OutcomesOf(i) :
        /\ k < Len(g_events)
        /\ g_events[k].event = (IF i \in Succeeded THEN "complete" ELSE "error")

\* The aggregate of a run as the outcomes of the calls of its tasks
\* determine it, whatever the mode and the order of completion.
AggregateFromOutcomes ==
    /\ task_states[g_task][1].generated = Succeeded
    /\ task_states[g_task][1].failed = Failing
    /\ LastEvent.event = "finish"
    /\ LastEvent.success = (Failing = {})
    /\ LastEvent.completed = Cardinality(Succeeded)
    /\ LastEvent.failed = Cardinality(Failing)

\* C29: for the same task list and the same outcome of the generator call
\* of every task, a bounded-concurrent run ends with the same aggregate as a
\* sequential run for every completion order of the workers: the same sets
\* of succeeded and failed indices in the task state, the same success,
\* completed and failed values, with exactly one done or error notification
\* per task emitted before finish.
C29_ModesAgree ==
    RunOver =>
        /\ AggregateFromOutcomes
        /\ \A i \in 1..Len(g_pages) :
             /\ i \in Succeeded \cup Failing
             /\ Cardinality(OutcomesOf(i)) = 1
             /\ OutcomeMatches(i)

\* ---------------------------------------------------- task state claims
HasState(ts, t) == ts[t] # <<>>

\* The kind of call a step of run / retry_single_image / cleanup_task is.
IsRunCall == last_run' # last_run
IsRetryCall == g_retries' = g_retries + 1
IsCleanupCall == last_cleanup' # last_cleanup

C30_StateStep ==
    \A t \in TaskIds :
        \* only cleanup_task(t) disposes of the state of t
        /\ HasState(task_states, t) /\ ~HasState(task_states', t)
              => IsCleanupCall /\ last_cleanup' = t
        \* cleanup_task(t) disposes of it and leaves every other state alone
        /\ IsCleanupCall =>
              IF t = last_cleanup' THEN ~HasState(task_states', t)
              ELSE task_states'[t] = task_states[t]
        \* a batch run has its state when it has finished, and leaves the
        \* states of other ids alone
        /\ IsRunCall /\ last_run'.finished /\ last_run'.task = t
              => HasState(task_states', t) /\ task_states'[t][1].pages = last_run'.pages
        /\ IsRunCall /\ last_run'.task # t => task_states'[t] = task_states[t]
        \* a retry neither disposes of a state nor creates one
        /\ IsRetryCall => HasState(task_states', t) = HasState(task_states, t)

\* C30: the task state of a run id exists from the start of its batch run
\* until cleanup_task is called for it; cleanup_task removes exactly that
\* state and leaves every other one unchanged, and no other operation (the
\* finish of a run, a retry, a run with another id) removes a state.
C30_StateUntilCleanup == [][C30_StateStep]_vars

\* After a finished run and a retry, cleanup_task disposed of the state of
\* the run while the other task still has the state it had.
C30_Witness ==
    /\ last_run.finished
    /\ g_retries >= 1
    /\ last_cleanup = last_run.task
    /\ ~HasState(task_states, last_run.task)
    /\ \E u \in TaskIds \ {last_run.task} : HasState(task_states, u)

\* ------------------------------------------------------- input claims
\* The topic or outline a caller gave is empty: None or "" as the field of
\* the dataclass or the value of the dict (an absent key reads as ""), or
\* the empty string passed as the input itself.
GivenEmpty(form, v) == IF form = "other" THEN v = "" ELSE v \in {None, ""}

TextInputMissing(call) ==
    \/ /\ call.result.skill = "outline"
       /\ GivenEmpty(call.input[1], call.input[2])
    \/ /\ call.result.skill = "content"
       /\ call.input[1] # "other"
       /\ GivenEmpty(call.input[1], call.input[2]) \/ GivenEmpty(call.input[1], call.input[3])

C31_Refused ==
    /\ txt_last' # txt_last /\ TextInputMissing(txt_last')
          => ~txt_last'.result.success /\ txt_last'.result.calls = 0
    /\ last_run' # last_run /\ last_run'.pages = <<>>
          => /\ ~last_run'.success
             /\ last_run'.calls = <<>>
             /\ task_states' = task_states

\* C31: with required input missing (an empty or absent page list for the
\* scheduler, an empty topic for the outline skill, an empty topic or
\* outline for the content skill) the call reports failure, makes no call
\* to the generation backend and, for the scheduler, creates no task state.
C31_MissingInputRefused == [][C31_Refused]_vars

\* The content skill refused an empty outline and a run refused an empty
\* page list for a task that has no state.
C31_Witness ==
    /\ txt_last.input = <<"dict", "text", "">>
    /\ txt_last.result = [skill |-> "content", success |-> FALSE, calls |-> 0]
    /\ last_run # NoRun
    /\ last_run.pages = <<>>
    /\ ~last_run.success
    /\ task_states[last_run.task] = <<>>

\* --------------------------------------------------- channel map claims
Registered(o) == \E c \in ChanIds : m_channels[c] = o

\* Thread t is outside any call and holds, from its create_channel(c), an
\* open channel that is not the one the map has under c.
HoldsOrphan(t) ==
    /\ m_thr[t].pc = "idle"
    /\ m_thr[t].held # 0
    /\ ~m_thr[t].fault
    /\ ~m_objs[m_thr[t].held].closed
    /\ m_channels[m_objs[m_thr[t].held].channel_id] # m_thr[t].held

\* C32: create_channel and close_channel are not atomic; when they overlap
\* on one channel id a caller can hold a channel that is not the one
\* registered under the id, and an event published to such a channel is
\* never seen through the registry.
C32_OrphanNeverSeen ==
    /\ m_orphaned \cap m_seen = {}
    /\ \A t \in Threads : HoldsOrphan(t) => ~Registered(m_thr[t].held)

\* Two create_channel calls overlapped and no close_channel ran: a thread
\* holds an open channel while the map has another one under the same id,
\* and the event it published is still in the channel it holds.
C32_Witness ==
    \E t \in Threads :
        /\ HoldsOrphan(t)
        /\ m_channels[m_objs[m_thr[t].held].channel_id] # 0
        /\ \A o \in 1..Len(m_objs) : ~m_objs[o].closed
        /\ m_orphaned # {}
        /\ m_objs[m_thr[t].held].queue # <<>>

\* The step is a retry_single_image call whose generator call failed.
RetryFailed == g_retries' = g_retries + 1 /\ ~last_retry'.success

C33_NothingRecorded ==
    RetryFailed => /\ task_states' = task_states
                   /\ Len(last_retry'.calls) = 2
                   /\ ~last_retry'.calls[2].ok

\* C33: when the generator call of retry_single_image fails the call
\* returns success = false and every task state is as it was: the index
\* stays in the failure map if it was there, and the success map and the
\* kept cover image are untouched.
C33_FailedRetryFrame == [][C33_NothingRecorded]_vars

\* After a run in which a page failed, a retry of that page failed too and
\* the page is still recorded as failed and not as generated.
C33_Witness ==
    /\ last_run.finished
    /\ last_retry # NoRetry
    /\ ~last_retry.success
    /\ last_retry.task = last_run.task
    /\ RunFailedAt(last_retry.index)
    /\ RecordedFailed(last_retry.task, last_retry.index)

\* ------------------------------------------------- interleaving claims
\* The index a retry_single_image call for the task of the run stored.
RetriedOkOf(task) ==
    IF last_retry # NoRetry /\ last_retry.success /\ last_retry.task = task
    THEN {last_retry.index} ELSE {}

MapsDisjoint ==
    \A t \in TaskIds :
        task_states[t] # <<>> => task_states[t][1].generated \cap task_states[t][1].failed = {}

\* The generator is suspended at its finish notification.
AtFinish == g_pc = "at_finish" /\ g_pages # <<>> /\ LastEvent.event = "finish"

\* C34: at every point of a batch run and after any retry_single_image
\* calls no index is in both the success map and the failure map of a task
\* state; at the finish of the run the failure map holds exactly
\* failed_indices and the success map exactly the succeeded indices.
C34_MapsConsistent ==
    /\ MapsDisjoint
    /\ AtFinish =>
         /\ task_states[g_task][1].failed = SeqToSet(LastEvent.failed_indices)
         /\ task_states[g_task][1].generated = Succeeded \cup RetriedOkOf(g_task)

\* The generator calls of the run and of the latest retry_single_image.
AllCalls ==
    {g_log[k] : k \in Starts \cup Ends}
        \cup {last_retry.calls[k] : k \in 1..Len(last_retry.calls)}

\* C35: when a batch run and a retry_single_image call for another run id
\* (or two batch runs with different run ids) are interleaved on one skill
\* object, every image is stored under the run id of the run its page
\* belongs to.
C35_StoredUnderOwnRun == \A c \in AllCalls : c.dir = c.task

\* ------------------------------------------------ publish by threads
\* C36: under any interleaving of threads that call publish on one open
\* SSEChannel, every publish returns True and its own event is in the queue
\* when it returns; on overflow an older buffered event is dropped, never
\* the one being published.
C36_EveryPublishLands == \A r \in p_done : r.open => r.ret /\ r.present

\* ---------------------------------------------------- delivery claims
\* Events whose publish began on the closed channel.
Refused == {r.ev : r \in {d \in p_done : ~d.open}}

\* The producer numbers its events 1, 2, ... in publish order.
C37_InOrderOnce ==
    /\ \A i, j \in 1..Len(p_delivered) : i < j => p_delivered[i] < p_delivered[j]
    /\ \A i \in 1..Len(p_delivered) : p_delivered[i] \in 1..p_next
    /\ \A r \in p_done : ~r.open => ~r.ret
    /\ \A e \in Refused :
         ~InQueue(p_chan.queue, e) /\ \A i \in 1..Len(p_delivered) : p_delivered[i] # e

\* C37: with one consumer and any interleaving of publish and get_events,
\* what get_events returns, taken together, is a subsequence of the
\* published sequence: publish order, nothing twice; a publish on a closed
\* channel returns False and adds nothing.
C37_DeliveredSubsequence == []C37_InOrderOnce

\* Events were delivered with a gap (an older one was dropped on overflow),
\* and a publish on the closed channel was refused.
C37_Witness ==
    /\ Len(p_delivered) >= 2
    /\ \E i \in 1..(Len(p_delivered) - 1) : p_delivered[i + 1] > p_delivered[i] + 1
    /\ Refused # {}

\* ----------------------------------------------------- handler claims
\* C38: every event run_stream yields has first been passed, in the same
\* order and exactly once, to each handler registered with
\* add_event_handler, whether or not a handler raises; for BasePipeline and
\* for the pipelines built on it.
C38_HandlersSeeEveryEvent == \A h \in PipelineHandlers : received[h] = events

\* ---------------------------------------------------------------- C39
StreamExhausted(r) == s_runs[r].pc = "exhausted"

\* What cancel_pipeline(r) would return in this state.
CancelReturns(r) == r \in active_pipelines /\ s_runs[r].status = "running"

\* C39: once the event sequence of run_pipeline_stream is exhausted, for any
\* pipeline type and any outcome, the run id is no longer registered and
\* cancel_pipeline for it returns False.
C39_ExhaustedUnregistered ==
    \A r \in 1..MaxServiceRuns :
        StreamExhausted(r) => r \notin active_pipelines /\ ~CancelReturns(r)

====
